---- MODULE Spec2Model ----
(***************************************************************************)
(* Model of the WhatsApp BetTask backend (whatsapp-bettask-backend):       *)
(* the wallet / transaction / challenge tables kept in Supabase, the       *)
(* bet-creation dialogue of handlers/intent_router.py, and the handlers    *)
(* that move money (challenge creation, cancellation, proof verification,  *)
(* payment approval, withdrawal).                                          *)
(*                                                                         *)
(* One user (one phone number) is modelled: every table query of the code  *)
(* filters on the user's id and every conversation dictionary is keyed by  *)
(* the phone number.  Money is in whole rupees; stakes are multiples of    *)
(* ten so that the 10% completion bonus is a whole number.                 *)
(***************************************************************************)
EXTENDS Bags, FiniteSets, Integers, Naturals, Sequences, TLC

\* ---------------------------------------------------------------- bounds
MaxChallenges == 1
MaxPayments == 1
MaxFaults == 1
MaxStatusCalls == 1
MaxAttempts == 2

\* ------------------------------------------------------- program constants
DefaultAmount == 100
BonusPercent == 10
MinWithdrawal == 50
MinDeposit == 50
MaxDeposit == 50000
InitialBalance == 0

Phone == "p1"

DefaultTitle == "My challenge"

\* the amounts the messages and the language model can name
Amounts == {0, 40, 100}

\* ----------------------------------------------------- python dict helpers
Get(d, k, default) == IF k \in DOMAIN d THEN d[k] ELSE default

Put(d, k, v) == [x \in (DOMAIN d) \cup {k} |-> IF x = k THEN v ELSE d[x]]

Del(d, k) == [x \in (DOMAIN d) \ {k} |-> d[x]]

EmptyDict == [x \in {} |-> 0]

\* ------------------------------------------------------------ the messages
\* The messages the user can send.  Per message, what the code computes from its
\* text: hits - the keyword lists of _fast_intent_classification with an entry
\* inside the message; sub - the words the conversation code looks for that occur
\* in the message; hasAmt/amt - the amount regex; hasDigit - re.search(r'\d+');
\* words - len(message.split()); len - len(message); goal - the message as a
\* goal text; clean - _extract_clean_goal of the message; rest/restLen -
\* _extract_clean_goal of the message with the amount removed, and its length;
\* cleanSetup/restSetup - a setup indicator occurs in clean/rest;
\* betGoalLen - length of the goal text left by the amount-with-goal rule;
\* number - float(message) of the withdrawal amount step (-1: ValueError);
\* fundNumber - the number parsed by the fund amount step (-1: none).
\* The code never looks inside a goal text, it only stores it: the goal texts
\* "go to gym" is kept as it is and every other goal text is written
\* "(other text)".
Messages ==
  {
    [text |-> "help", hits |-> {}, sub |-> {}, hasAmt |-> FALSE, amt |-> 0, hasDigit |-> FALSE,
     words |-> 1, len |-> 4, goal |-> "(other text)", clean |-> "(other text)",
     cleanSetup |-> FALSE, rest |-> "(other text)", restLen |-> 4, restSetup |-> FALSE,
     betGoalLen |-> 4, number |-> -1, fundNumber |-> -1],
    [text |-> "cancel", hits |-> {}, sub |-> {}, hasAmt |-> FALSE, amt |-> 0, hasDigit |-> FALSE,
     words |-> 1, len |-> 6, goal |-> "(other text)", clean |-> "(other text)",
     cleanSetup |-> FALSE, rest |-> "(other text)", restLen |-> 6, restSetup |-> FALSE,
     betGoalLen |-> 6, number |-> -1, fundNumber |-> -1],
    [text |-> "balance", hits |-> {}, sub |-> {}, hasAmt |-> FALSE, amt |-> 0,
     hasDigit |-> FALSE, words |-> 1, len |-> 7, goal |-> "(other text)",
     clean |-> "(other text)", cleanSetup |-> FALSE, rest |-> "(other text)", restLen |-> 7,
     restSetup |-> FALSE, betGoalLen |-> 7, number |-> -1, fundNumber |-> -1],
    [text |-> "my challenges", hits |-> {"bet_kw", "edit_object", "list"}, sub |-> {},
     hasAmt |-> FALSE, amt |-> 0, hasDigit |-> FALSE, words |-> 2, len |-> 13,
     goal |-> "(other text)", clean |-> "(other text)", cleanSetup |-> FALSE,
     rest |-> "(other text)", restLen |-> 13, restSetup |-> FALSE, betGoalLen |-> 13,
     number |-> -1, fundNumber |-> -1],
    [text |-> "i want to bet",
     hits |-> {"bet_kw", "betting", "betting3", "commit_pattern", "edit_object", "goal_phrase"},
     sub |-> {"bet"}, hasAmt |-> FALSE, amt |-> 0, hasDigit |-> FALSE, words |-> 4, len |-> 13,
     goal |-> "(other text)", clean |-> "(other text)", cleanSetup |-> FALSE,
     rest |-> "(other text)", restLen |-> 13, restSetup |-> FALSE, betGoalLen |-> 0,
     number |-> -1, fundNumber |-> -1],
    [text |-> "gym", hits |-> {"goal_action"}, sub |-> {}, hasAmt |-> FALSE, amt |-> 0,
     hasDigit |-> FALSE, words |-> 1, len |-> 3, goal |-> "(other text)", clean |-> "go to gym",
     cleanSetup |-> FALSE, rest |-> "go to gym", restLen |-> 9, restSetup |-> FALSE,
     betGoalLen |-> 3, number |-> -1, fundNumber |-> -1],
    [text |-> "bet my entire balance", hits |-> {"bet_all", "bet_kw", "edit_object"},
     sub |-> {"bet"}, hasAmt |-> FALSE, amt |-> 0, hasDigit |-> FALSE, words |-> 4, len |-> 21,
     goal |-> "(other text)", clean |-> "(other text)", cleanSetup |-> FALSE,
     rest |-> "(other text)", restLen |-> 17, restSetup |-> FALSE, betGoalLen |-> 17,
     number |-> -1, fundNumber |-> -1],
    [text |-> "yes", hits |-> {}, sub |-> {}, hasAmt |-> FALSE, amt |-> 0, hasDigit |-> FALSE,
     words |-> 1, len |-> 3, goal |-> "(other text)", clean |-> "(other text)",
     cleanSetup |-> FALSE, rest |-> "(other text)", restLen |-> 3, restSetup |-> FALSE,
     betGoalLen |-> 3, number |-> -1, fundNumber |-> -1],
    [text |-> "one-time", hits |-> {}, sub |-> {}, hasAmt |-> FALSE, amt |-> 0,
     hasDigit |-> FALSE, words |-> 1, len |-> 8, goal |-> "(other text)",
     clean |-> "(other text)", cleanSetup |-> TRUE, rest |-> "(other text)", restLen |-> 8,
     restSetup |-> TRUE, betGoalLen |-> 8, number |-> -1, fundNumber |-> -1],
    [text |-> "recurring", hits |-> {}, sub |-> {"recurring"}, hasAmt |-> FALSE, amt |-> 0,
     hasDigit |-> FALSE, words |-> 1, len |-> 9, goal |-> "(other text)",
     clean |-> "(other text)", cleanSetup |-> FALSE, rest |-> "(other text)", restLen |-> 9,
     restSetup |-> FALSE, betGoalLen |-> 9, number |-> -1, fundNumber |-> -1],
    [text |-> "daily", hits |-> {}, sub |-> {"daily"}, hasAmt |-> FALSE, amt |-> 0,
     hasDigit |-> FALSE, words |-> 1, len |-> 5, goal |-> "(other text)",
     clean |-> "(other text)", cleanSetup |-> FALSE, rest |-> "(other text)", restLen |-> 5,
     restSetup |-> FALSE, betGoalLen |-> 5, number |-> -1, fundNumber |-> -1],
    [text |-> "edit", hits |-> {"edit", "edit3"}, sub |-> {}, hasAmt |-> FALSE, amt |-> 0,
     hasDigit |-> FALSE, words |-> 1, len |-> 4, goal |-> "(other text)",
     clean |-> "(other text)", cleanSetup |-> FALSE, rest |-> "(other text)", restLen |-> 4,
     restSetup |-> FALSE, betGoalLen |-> 4, number |-> -1, fundNumber |-> -1],
    [text |-> "goal", hits |-> {"edit_object"}, sub |-> {"goal"}, hasAmt |-> FALSE, amt |-> 0,
     hasDigit |-> FALSE, words |-> 1, len |-> 4, goal |-> "(other text)",
     clean |-> "(other text)", cleanSetup |-> FALSE, rest |-> "(other text)", restLen |-> 4,
     restSetup |-> FALSE, betGoalLen |-> 4, number |-> -1, fundNumber |-> -1],
    [text |-> "amount", hits |-> {}, sub |-> {"amount"}, hasAmt |-> FALSE, amt |-> 0,
     hasDigit |-> FALSE, words |-> 1, len |-> 6, goal |-> "(other text)",
     clean |-> "(other text)", cleanSetup |-> FALSE, rest |-> "(other text)", restLen |-> 6,
     restSetup |-> FALSE, betGoalLen |-> 6, number |-> -1, fundNumber |-> -1],
    [text |-> "type", hits |-> {}, sub |-> {"type"}, hasAmt |-> FALSE, amt |-> 0,
     hasDigit |-> FALSE, words |-> 1, len |-> 4, goal |-> "(other text)",
     clean |-> "(other text)", cleanSetup |-> FALSE, rest |-> "(other text)", restLen |-> 4,
     restSetup |-> FALSE, betGoalLen |-> 4, number |-> -1, fundNumber |-> -1],
    [text |-> "chess tonight", hits |-> {}, sub |-> {}, hasAmt |-> FALSE, amt |-> 0,
     hasDigit |-> FALSE, words |-> 2, len |-> 13, goal |-> "(other text)",
     clean |-> "(other text)", cleanSetup |-> FALSE, rest |-> "(other text)", restLen |-> 13,
     restSetup |-> FALSE, betGoalLen |-> 13, number |-> -1, fundNumber |-> -1],
    [text |-> "nope", hits |-> {}, sub |-> {"no"}, hasAmt |-> FALSE, amt |-> 0,
     hasDigit |-> FALSE, words |-> 1, len |-> 4, goal |-> "(other text)",
     clean |-> "(other text)", cleanSetup |-> FALSE, rest |-> "(other text)", restLen |-> 4,
     restSetup |-> FALSE, betGoalLen |-> 4, number |-> -1, fundNumber |-> -1],
    [text |-> "withdraw", hits |-> {}, sub |-> {}, hasAmt |-> FALSE, amt |-> 0,
     hasDigit |-> FALSE, words |-> 1, len |-> 8, goal |-> "(other text)",
     clean |-> "(other text)", cleanSetup |-> FALSE, rest |-> "(other text)", restLen |-> 8,
     restSetup |-> FALSE, betGoalLen |-> 8, number |-> -1, fundNumber |-> -1],
    [text |-> "add funds", hits |-> {"add_funds"}, sub |-> {}, hasAmt |-> FALSE, amt |-> 0,
     hasDigit |-> FALSE, words |-> 2, len |-> 9, goal |-> "(other text)",
     clean |-> "(other text)", cleanSetup |-> FALSE, rest |-> "(other text)", restLen |-> 5,
     restSetup |-> FALSE, betGoalLen |-> 9, number |-> -1, fundNumber |-> -1],
    [text |-> "40", hits |-> {}, sub |-> {}, hasAmt |-> FALSE, amt |-> 0, hasDigit |-> TRUE,
     words |-> 1, len |-> 2, goal |-> "(other text)", clean |-> "(other text)",
     cleanSetup |-> FALSE, rest |-> "(other text)", restLen |-> 2, restSetup |-> FALSE,
     betGoalLen |-> 2, number |-> 40, fundNumber |-> 40],
    [text |-> "100", hits |-> {}, sub |-> {}, hasAmt |-> FALSE, amt |-> 0, hasDigit |-> TRUE,
     words |-> 1, len |-> 3, goal |-> "(other text)", clean |-> "(other text)",
     cleanSetup |-> FALSE, rest |-> "(other text)", restLen |-> 3, restSetup |-> FALSE,
     betGoalLen |-> 3, number |-> 100, fundNumber |-> 100],
    [text |-> "confirm", hits |-> {}, sub |-> {}, hasAmt |-> FALSE, amt |-> 0,
     hasDigit |-> FALSE, words |-> 1, len |-> 7, goal |-> "(other text)",
     clean |-> "(other text)", cleanSetup |-> FALSE, rest |-> "(other text)", restLen |-> 7,
     restSetup |-> FALSE, betGoalLen |-> 7, number |-> -1, fundNumber |-> -1],
    [text |-> "gym rs 0", hits |-> {"goal_action"}, sub |-> {"rs"}, hasAmt |-> TRUE, amt |-> 0,
     hasDigit |-> TRUE, words |-> 3, len |-> 8, goal |-> "(other text)", clean |-> "go to gym",
     cleanSetup |-> FALSE, rest |-> "go to gym", restLen |-> 9, restSetup |-> FALSE,
     betGoalLen |-> 3, number |-> -1, fundNumber |-> 0],
    [text |-> "gym rs 40", hits |-> {"goal_action"}, sub |-> {"rs"}, hasAmt |-> TRUE, amt |-> 40,
     hasDigit |-> TRUE, words |-> 3, len |-> 9, goal |-> "(other text)", clean |-> "go to gym",
     cleanSetup |-> FALSE, rest |-> "go to gym", restLen |-> 9, restSetup |-> FALSE,
     betGoalLen |-> 3, number |-> -1, fundNumber |-> 40],
    [text |-> "gym rs 100", hits |-> {"goal_action"}, sub |-> {"rs"}, hasAmt |-> TRUE,
     amt |-> 100, hasDigit |-> TRUE, words |-> 3, len |-> 10, goal |-> "(other text)",
     clean |-> "go to gym", cleanSetup |-> FALSE, rest |-> "go to gym", restLen |-> 9,
     restSetup |-> FALSE, betGoalLen |-> 3, number |-> -1, fundNumber |-> 100],
    [text |-> "rs 0", hits |-> {}, sub |-> {"rs"}, hasAmt |-> TRUE, amt |-> 0, hasDigit |-> TRUE,
     words |-> 2, len |-> 4, goal |-> "(other text)", clean |-> "(other text)",
     cleanSetup |-> FALSE, rest |-> "(other text)", restLen |-> 0, restSetup |-> FALSE,
     betGoalLen |-> 0, number |-> -1, fundNumber |-> 0],
    [text |-> "rs 40", hits |-> {}, sub |-> {"rs"}, hasAmt |-> TRUE, amt |-> 40,
     hasDigit |-> TRUE, words |-> 2, len |-> 5, goal |-> "(other text)",
     clean |-> "(other text)", cleanSetup |-> FALSE, rest |-> "(other text)", restLen |-> 0,
     restSetup |-> FALSE, betGoalLen |-> 0, number |-> -1, fundNumber |-> 40],
    [text |-> "rs 100", hits |-> {}, sub |-> {"rs"}, hasAmt |-> TRUE, amt |-> 100,
     hasDigit |-> TRUE, words |-> 2, len |-> 6, goal |-> "(other text)",
     clean |-> "(other text)", cleanSetup |-> FALSE, rest |-> "(other text)", restLen |-> 0,
     restSetup |-> FALSE, betGoalLen |-> 0, number |-> -1, fundNumber |-> 100],
    [text |-> "no bet rs 0", hits |-> {"bet_kw", "edit_object"}, sub |-> {"bet", "no", "rs"},
     hasAmt |-> TRUE, amt |-> 0, hasDigit |-> TRUE, words |-> 4, len |-> 11,
     goal |-> "(other text)", clean |-> "(other text)", cleanSetup |-> FALSE,
     rest |-> "(other text)", restLen |-> 6, restSetup |-> FALSE, betGoalLen |-> 2,
     number |-> -1, fundNumber |-> 0],
    [text |-> "no bet rs 40", hits |-> {"bet_kw", "edit_object"}, sub |-> {"bet", "no", "rs"},
     hasAmt |-> TRUE, amt |-> 40, hasDigit |-> TRUE, words |-> 4, len |-> 12,
     goal |-> "(other text)", clean |-> "(other text)", cleanSetup |-> FALSE,
     rest |-> "(other text)", restLen |-> 6, restSetup |-> FALSE, betGoalLen |-> 2,
     number |-> -1, fundNumber |-> 40],
    [text |-> "no bet rs 100", hits |-> {"bet_kw", "edit_object"}, sub |-> {"bet", "no", "rs"},
     hasAmt |-> TRUE, amt |-> 100, hasDigit |-> TRUE, words |-> 4, len |-> 13,
     goal |-> "(other text)", clean |-> "(other text)", cleanSetup |-> FALSE,
     rest |-> "(other text)", restLen |-> 6, restSetup |-> FALSE, betGoalLen |-> 2,
     number |-> -1, fundNumber |-> 100],
    [text |-> "no bet rs 0 and change goal", hits |-> {"bet_kw", "edit", "edit3", "edit_object"},
     sub |-> {"bet", "change", "goal", "no", "rs"}, hasAmt |-> TRUE, amt |-> 0,
     hasDigit |-> TRUE, words |-> 7, len |-> 27, goal |-> "(other text)",
     clean |-> "(other text)", cleanSetup |-> FALSE, rest |-> "(other text)", restLen |-> 20,
     restSetup |-> FALSE, betGoalLen |-> 20, number |-> -1, fundNumber |-> 0],
    [text |-> "no bet rs 40 and change goal",
     hits |-> {"bet_kw", "edit", "edit3", "edit_object"},
     sub |-> {"bet", "change", "goal", "no", "rs"}, hasAmt |-> TRUE, amt |-> 40,
     hasDigit |-> TRUE, words |-> 7, len |-> 28, goal |-> "(other text)",
     clean |-> "(other text)", cleanSetup |-> FALSE, rest |-> "(other text)", restLen |-> 20,
     restSetup |-> FALSE, betGoalLen |-> 20, number |-> -1, fundNumber |-> 40],
    [text |-> "no bet rs 100 and change goal",
     hits |-> {"bet_kw", "edit", "edit3", "edit_object"},
     sub |-> {"bet", "change", "goal", "no", "rs"}, hasAmt |-> TRUE, amt |-> 100,
     hasDigit |-> TRUE, words |-> 7, len |-> 29, goal |-> "(other text)",
     clean |-> "(other text)", cleanSetup |-> FALSE, rest |-> "(other text)", restLen |-> 20,
     restSetup |-> FALSE, betGoalLen |-> 20, number |-> -1, fundNumber |-> 100],
    [text |-> "bet rs 0 on chess", hits |-> {"bet_kw", "edit_object"}, sub |-> {"bet", "rs"},
     hasAmt |-> TRUE, amt |-> 0, hasDigit |-> TRUE, words |-> 5, len |-> 17,
     goal |-> "(other text)", clean |-> "(other text)", cleanSetup |-> FALSE,
     rest |-> "(other text)", restLen |-> 8, restSetup |-> FALSE, betGoalLen |-> 8,
     number |-> -1, fundNumber |-> 0],
    [text |-> "bet rs 40 on chess", hits |-> {"bet_kw", "edit_object"}, sub |-> {"bet", "rs"},
     hasAmt |-> TRUE, amt |-> 40, hasDigit |-> TRUE, words |-> 5, len |-> 18,
     goal |-> "(other text)", clean |-> "(other text)", cleanSetup |-> FALSE,
     rest |-> "(other text)", restLen |-> 8, restSetup |-> FALSE, betGoalLen |-> 8,
     number |-> -1, fundNumber |-> 40],
    [text |-> "bet rs 100 on chess", hits |-> {"bet_kw", "edit_object"}, sub |-> {"bet", "rs"},
     hasAmt |-> TRUE, amt |-> 100, hasDigit |-> TRUE, words |-> 5, len |-> 19,
     goal |-> "(other text)", clean |-> "(other text)", cleanSetup |-> FALSE,
     rest |-> "(other text)", restLen |-> 8, restSetup |-> FALSE, betGoalLen |-> 8,
     number |-> -1, fundNumber |-> 100]
  }

\* -------------------------------------------------------- fast classification
Intent(intent, confidence, has_amount, amount) ==
    [intent |-> intent, confidence |-> confidence, has_amount |-> has_amount, amount |-> amount]

\* IntentRouter._fast_intent_classification: the rules in the order of the code.
\* m.hits names the keyword lists of the function with an entry inside the
\* message; confidence is in hundredths; has_amount/amount is extracted_data["amount"].
_fast_intent_classification(m) ==
    LET t == m.text
        h == m.hits
        edit_word == "edit" \in h
    IN
    IF t \in {"help", "help me", "commands", "what can you do", "menu", "instructions", "?"}
    THEN Intent("help", 95, FALSE, 0)
    ELSE IF t \in {"cancel", "stop", "exit", "quit", "abort", "nevermind", "never mind",
                   "cancel conversation"}
    THEN Intent("cancel_conversation", 95, FALSE, 0)
    ELSE IF "modify" \in h
    THEN Intent("modify_recent_challenge", 95, FALSE, 0)
    ELSE IF edit_word /\ "edit_object" \in h
    THEN Intent("edit_challenge", 90, FALSE, 0)
    ELSE IF t \in {"balance", "wallet", "check balance", "my balance", "my wallet", "money",
                   "how much money", "funds", "check wallet", "account"}
    THEN Intent("get_balance", 95, FALSE, 0)
    ELSE IF "history" \in h
    THEN Intent("transaction_history", 95, FALSE, 0)
    ELSE IF "list" \in h
    THEN Intent("list_challenges", 95, FALSE, 0)
    ELSE IF "add_funds" \in h
    THEN Intent("add_funds", 95, FALSE, 0)
    ELSE IF "info" \in h
    THEN Intent("information_request", 90, FALSE, 0)
    ELSE IF "completion" \in h
    THEN Intent("completion_or_verification", 90, FALSE, 0)
    ELSE IF "create_cmd" \in h \/ "betting" \in h \/ "setup" \in h
    THEN Intent("betting_intent", 95, FALSE, 0)
    ELSE IF "goal_action" \in h
    THEN Intent("create_challenge_intent", 90, m.hasAmt, m.amt)
    ELSE IF "goal_phrase" \in h
    THEN Intent("create_challenge_intent", 60, FALSE, 0)
    ELSE IF t \in {"bet", "betting", "i bet", "lets bet", "let's bet"}
    THEN Intent("betting_intent", 90, FALSE, 0)
    ELSE IF "bet_all" \in h
    THEN Intent("bet_amount_all", 95, FALSE, 0)
    ELSE IF m.hasAmt /\ "bet_kw" \in h /\ ~edit_word
    THEN IF m.betGoalLen > 3
         THEN Intent("create_challenge_with_amount", 85, TRUE, m.amt)
         ELSE Intent("bet_amount", 85, TRUE, m.amt)
    ELSE IF m.hasAmt /\ m.len < 10 /\ "edit3" \notin h
    THEN Intent("bet_amount", 80, TRUE, m.amt)
    ELSE IF "commit_pattern" \in h /\ "exclusion" \notin h /\ ~edit_word /\ "betting3" \notin h
    THEN Intent("create_challenge_intent", 80, FALSE, 0)
    ELSE IF m.words >= 2
    THEN Intent("create_challenge_intent", 60, FALSE, 0)
    ELSE IF t \in {"water", "gym", "study", "read", "exercise", "run", "walk", "swim", "yoga",
                   "meditate", "sleep", "cook", "clean", "work", "write", "practice"}
    THEN Intent("create_challenge_intent", 70, FALSE, 0)
    ELSE IF "greeting" \in h /\ m.words <= 3 /\ "goal_action" \notin h /\ "goal_phrase" \notin h
    THEN Intent("general_chat", 80, FALSE, 0)
    ELSE Intent("unknown", 50, FALSE, 0)

VARIABLES
    wallet,                  \* wallets.balance of the user
    profile_balance,         \* profiles.balance of the user (read back as user_profile["balance"])
    challenges,              \* rows of table challenges, id = index
    transactions,            \* rows of table transactions (a bag)
    payment_requests,        \* rows of table payment_requests, id = index
    bet_conversation_state,  \* IntentRouter.bet_conversation_state, keyed by phone
    fund_state,              \* FundHandler.fund_state, keyed by phone
    withdrawal_state,        \* WithdrawalHandler.withdrawal_state, keyed by phone
    reply,                   \* the reply returned for the last request
    last_ledger_op,          \* the challenge creation that was the last write to the ledger, if it was one
    faults,                  \* number of database calls that have failed so far
    attempts,                \* calls made on the service layer directly: status updates, and challenge
                             \* creations in flight in the overlapping-requests specification
    idle,                    \* the user's last message is older than any session timeout
    handled                  \* history: how the last inbound message was handled

vars == <<wallet, profile_balance, challenges, transactions, payment_requests,
          bet_conversation_state, fund_state, withdrawal_state, reply, last_ledger_op, faults,
          attempts, idle, handled>>

ledger == <<wallet, profile_balance, challenges, transactions, payment_requests>>

\* what the dialogue specification observes of the handlers; they leave it alone
observation == <<idle, handled>>

\* main.py's polling of the WhatsApp bridge's message store
VARIABLES
    stored_messages,         \* rows of the bridge's table messages with is_from_me = 0, in insertion order
    last_processed_time,     \* main.py's global last_processed_time (the watermark)
    processed_messages,      \* main.py's global processed_messages: keys of the messages taken
    dispatched               \* history: per stored message, how often process_message was awaited for it

polling == <<stored_messages, last_processed_time, processed_messages, dispatched>>

\* FundHandler.payment_screenshot_state, keyed by phone: the request a user was
\* asked to send a screenshot for.  It is read only where a screenshot picks
\* its request among those of several users.
VARIABLE payment_screenshot_state

\* no inbound message handled yet
NoInbound == [by |-> "none", intent |-> "none", stage |-> "none"]

\* ------------------------------------------------------------ the database
\* The database calls a handler makes, by the name used for them in the fault
\* sets below.  A fault set f names the calls that fail during one handler run.
FaultSets(calls) == {f \in SUBSET calls : Cardinality(f) <= MaxFaults - faults}

\* SupabaseClient.get_user_balance: the wallet row, or 0.0 when the read fails
get_user_balance(f) == IF "balance_read" \in f THEN 0 ELSE wallet

\* SupabaseClient.update_user_balance: writes wallets first, then profiles; a
\* failed wallet write leaves both alone, a failed profile write is only logged.
\* The boolean result is dropped by every caller.
update_user_balance_wallet(new_balance, f) ==
    IF "wallet_update" \in f THEN wallet ELSE new_balance

update_user_balance_profile(new_balance, f) ==
    IF "wallet_update" \in f \/ "profile_update" \in f THEN profile_balance ELSE new_balance

\* SupabaseClient.record_transaction: one row; the caller sees an exception when the insert fails
Transaction(type, amount, challenge_id) ==
    [transaction_type |-> type, amount |-> amount, challenge_id |-> challenge_id]

record_transaction(type, amount, challenge_id) ==
    transactions (+) SetToBag({Transaction(type, amount, challenge_id)})

\* SupabaseClient.update_challenge_status: an unconditional update of the row's
\* status; a failure is swallowed and reported as False, which callers drop.
update_challenge_status(rows, challenge_id, status, failed) ==
    IF failed \/ challenge_id \notin DOMAIN rows THEN rows
    ELSE [rows EXCEPT ![challenge_id].status = status]

\* SupabaseClient.get_user_challenges(user_id, status="active"): [] when the query fails
get_user_challenges(status, f) ==
    IF "challenges_read" \in f THEN {}
    ELSE {c \in DOMAIN challenges : challenges[c].status = status}

\* SupabaseClient.get_challenge_by_id, called by the proof handler: the row with that id, or None
get_challenge_by_id(challenge_id) ==
    IF challenge_id \in DOMAIN challenges THEN challenges[challenge_id] ELSE [status |-> "none"]

NoLedgerOp == [op |-> "none", challenge_id |-> 0, balance_before |-> 0]

LedgerOp(op, challenge_id, balance_before) ==
    [op |-> op, challenge_id |-> challenge_id, balance_before |-> balance_before]

Init ==
    /\ wallet = InitialBalance
    /\ profile_balance = InitialBalance
    /\ challenges = <<>>
    /\ transactions = EmptyBag
    /\ payment_requests = <<>>
    /\ bet_conversation_state = EmptyDict
    /\ fund_state = EmptyDict
    /\ withdrawal_state = EmptyDict
    /\ reply = "none"
    /\ last_ledger_op = NoLedgerOp
    /\ faults = 0
    /\ attempts = <<>>
    /\ idle = FALSE
    /\ stored_messages = <<>>
    /\ last_processed_time = 0
    /\ processed_messages = {}
    /\ dispatched = <<>>
    /\ payment_screenshot_state = EmptyDict
    /\ handled = NoInbound

\* ------------------------------------------------------------------ deposits
\* FundHandler._approve_payment, as called by handle_payment_screenshot for a
\* pending request whose screenshot verified for the full amount.
ApprovePayment(payment_id, f) ==
    /\ payment_id \in DOMAIN payment_requests
    /\ payment_requests[payment_id].status = "pending"
    /\ LET amount == payment_requests[payment_id].amount
           new_balance == get_user_balance(f) + amount
       IN  IF "payment_update" \in f
           THEN /\ f = {"payment_update"}
                /\ reply' = "credit_failed"
                /\ UNCHANGED ledger
           ELSE /\ payment_requests' = [payment_requests EXCEPT ![payment_id].status = "approved"]
                /\ wallet' = update_user_balance_wallet(new_balance, f)
                /\ profile_balance' = update_user_balance_profile(new_balance, f)
                /\ IF "tx_insert" \in f
                   THEN reply' = "credit_failed" /\ UNCHANGED transactions
                   ELSE /\ transactions' = record_transaction("deposit", amount, 0)
                        /\ reply' = "payment_credited"
                /\ UNCHANGED challenges
    /\ last_ledger_op' = NoLedgerOp
    /\ faults' = faults + Cardinality(f)
    /\ UNCHANGED <<bet_conversation_state, fund_state, withdrawal_state, attempts>>

ApprovePaymentCalls == {"payment_update", "balance_read", "wallet_update", "profile_update", "tx_insert"}

\* ------------------------------------------------------------ cancellation
CancelCalls == {"challenges_read", "status_update", "balance_read", "wallet_update",
                "profile_update", "tx_insert"}

\* ChallengeHandler.handle_cancel_challenge: with exactly one active challenge
\* it is cancelled and its stake refunded; with several the user is asked which.
handle_cancel_challenge(f) ==
    LET active_challenges == get_user_challenges("active", f) IN
    /\ IF active_challenges = {}
       THEN /\ f \subseteq {"challenges_read"}
            /\ reply' = "no_active_challenges"
            /\ UNCHANGED <<ledger, last_ledger_op>>
       ELSE IF Cardinality(active_challenges) = 1
       THEN LET challenge_id == CHOOSE c \in active_challenges : TRUE
                amount == challenges[challenge_id].amount
                new_balance == get_user_balance(f) + amount
            IN  /\ challenges' = update_challenge_status(challenges, challenge_id, "cancelled",
                                                         "status_update" \in f)
                /\ wallet' = update_user_balance_wallet(new_balance, f)
                /\ profile_balance' = update_user_balance_profile(new_balance, f)
                /\ IF "tx_insert" \in f
                   THEN reply' = "cancel_error" /\ UNCHANGED transactions
                   ELSE /\ transactions' = record_transaction("refund", amount, challenge_id)
                        /\ reply' = "challenge_cancelled"
                /\ last_ledger_op' = NoLedgerOp
                /\ UNCHANGED payment_requests
       ELSE /\ f = {}
            /\ reply' = "which_challenge"
            /\ UNCHANGED <<ledger, last_ledger_op>>
    /\ faults' = faults + Cardinality(f)
    /\ UNCHANGED <<bet_conversation_state, fund_state, withdrawal_state, attempts>>

\* -------------------------------------------------------- proof verification
Reward(amount) == amount + (amount * BonusPercent) \div 100

\* SupabaseClient.create_task_submission: the submission row, then the challenge
\* goes to pending_verification (the result of that update is dropped)
create_task_submission(challenge_id, f) ==
    update_challenge_status(challenges, challenge_id, "pending_verification",
                            "pending_update" \in f)

ProofCalls == {"submission_insert", "pending_update", "verification_update", "status_update",
               "balance_read", "wallet_update", "profile_update", "tx_insert"}

\* ProofHandler.handle_proof_submission with _handle_successful_verification
\* and _handle_failed_verification
handle_proof_submission(challenge_id, deadline_passed, verified, f) ==
    LET challenge == get_challenge_by_id(challenge_id)
        submitted == create_task_submission(challenge_id, f)
        reward_amount == Reward(challenge.amount)
        new_balance == get_user_balance(f) + reward_amount
    IN
    /\ IF challenge.status = "none"
       THEN f = {} /\ reply' = "challenge_not_found" /\ UNCHANGED <<ledger, last_ledger_op>>
       ELSE IF challenge.status # "active"
       THEN f = {} /\ reply' = "challenge_not_active" /\ UNCHANGED <<ledger, last_ledger_op>>
       ELSE IF deadline_passed
       THEN f = {} /\ reply' = "deadline_passed" /\ UNCHANGED <<ledger, last_ledger_op>>
       ELSE IF "submission_insert" \in f
       THEN f = {"submission_insert"} /\ reply' = "proof_error" /\ UNCHANGED <<ledger, last_ledger_op>>
       ELSE IF "verification_update" \in f
       THEN /\ challenges' = submitted
            /\ reply' = "proof_error"
            /\ UNCHANGED <<wallet, profile_balance, transactions, payment_requests, last_ledger_op>>
       ELSE IF ~verified
       THEN /\ challenges' = submitted
            /\ reply' = "proof_not_accepted"
            /\ UNCHANGED <<wallet, profile_balance, transactions, payment_requests, last_ledger_op>>
       ELSE /\ challenges' = update_challenge_status(submitted, challenge_id, "completed",
                                                     "status_update" \in f)
            /\ wallet' = update_user_balance_wallet(new_balance, f)
            /\ profile_balance' = update_user_balance_profile(new_balance, f)
            /\ IF "tx_insert" \in f
               THEN reply' = "reward_error" /\ UNCHANGED transactions
               ELSE /\ transactions' = record_transaction("reward", reward_amount, challenge_id)
                    /\ reply' = "challenge_completed"
            /\ last_ledger_op' = NoLedgerOp
            /\ UNCHANGED payment_requests
    /\ faults' = faults + Cardinality(f)
    /\ UNCHANGED <<bet_conversation_state, fund_state, withdrawal_state, attempts>>

\* ------------------------------------------------------ the bet conversation
\* state.update(kv) on a session dictionary
Update(state, kv) == kv @@ state

\* what one run of the conversation handler decides: the session it leaves
\* (<<>> when it deletes the session), the reply, and whether it goes on to
\* create the challenge
Continue(state, text) == [session |-> <<state>>, reply |-> text, commit |-> FALSE]

Reset(text) == [session |-> <<>>, reply |-> text, commit |-> FALSE]

Affirmative == {"yes", "y", "yeah", "yep", "confirm", "ok", "okay", "sure", "create"}

\* the escape check with only the cancel intent in its list
OnlyCancelEscapes == {"cancel_conversation"}

EscapeIntents == {"list_challenges", "get_balance", "help", "cancel_conversation"}

frequency_map ==
    ("daily" :> "daily") @@ ("weekly" :> "weekly") @@ ("twice a week" :> "twice_weekly") @@
    ("2 times per week" :> "twice_weekly") @@ ("3 times per week" :> "thrice_weekly") @@
    ("thrice a week" :> "thrice_weekly") @@ ("daily except sunday" :> "daily_except_sunday") @@
    ("every day except sunday" :> "daily_except_sunday") @@
    ("everyday except sunday" :> "daily_except_sunday")

\* the goal stage of _handle_bet_conversation
GoalStage(state, m) ==
    IF "no" \in m.sub /\ ("bet" \in m.sub \/ "rs" \in m.sub) /\ "change" \in m.sub
    THEN IF m.hasAmt
         THEN Continue(Update(state, [amount |-> m.amt, stage |-> "waiting_for_goal"]),
                       "amount_set_ask_goal")
         ELSE Continue(state, "ask_goal_and_amount")
    ELSE IF m.hasAmt
    THEN IF m.restLen > 2 /\ ~m.restSetup
         THEN Continue(Update(state, [amount |-> m.amt, goal |-> m.rest,
                                      stage |-> "asking_recurring_type"]),
                       "ask_recurring_type")
         ELSE Continue(Update(state, [amount |-> m.amt, stage |-> "waiting_for_goal"]),
                       "amount_set_ask_goal")
    ELSE IF m.cleanSetup
    THEN Continue(state, "ask_specific_goal")
    ELSE Continue(Update(state, [goal |-> m.clean, stage |-> "waiting_for_amount"]), "ask_amount")

\* "recurring" said at any point after the goal stage
RecurringKeyword(state, m) ==
    \/ m.text \in {"recurring", "repeat"}
    \/ m.text \in {"daily", "weekly"} /\ state.stage # "waiting_for_frequency"

\* the frequency stage
FrequencyStage(state, m) ==
    LET frequency == IF "except sunday" \in m.sub \/ "except sun" \in m.sub
                     THEN "daily_except_sunday"
                     ELSE Get(frequency_map, m.text, "daily")
        chosen == Update(state, [recurring_frequency |-> frequency])
    IN  IF "amount" \in DOMAIN state
        THEN Continue(Update(chosen, [stage |-> "waiting_for_confirmation"]), "summary")
        ELSE Continue(Update(chosen, [stage |-> "waiting_for_amount"]), "ask_amount")

\* the amount stage; balance is user_profile["balance"].  The branch that keeps
\* the goal when message and goal both contain "water" needs a message with
\* "water" in it, and Messages has none.
AmountStage(state, m, intent, balance) ==
    IF ~m.hasDigit /\ m.words <= 3 /\ m.len > 1
    THEN Continue(Update(state, [goal |-> m.goal]), "goal_clarified_ask_amount")
    ELSE IF intent.intent = "bet_amount_all" /\ balance <= 0
    THEN Continue(state, "no_money_to_bet")
    ELSE IF intent.intent \notin {"bet_amount_all", "bet_amount"} /\ ~m.hasAmt
    THEN Continue(state, "amount_not_understood")
    ELSE LET amount == IF intent.intent = "bet_amount_all" THEN balance
                       ELSE IF intent.intent = "bet_amount" THEN intent.amount
                       ELSE m.amt
         IN  IF amount > balance
             THEN Continue(state, "amount_exceeds_balance")
             ELSE IF amount <= 0
             THEN Continue(state, "amount_not_positive")
             ELSE Continue(Update(state, [amount |-> amount, stage |-> "asking_recurring_type"]),
                           "ask_recurring_type")

\* the one-time / recurring choice
RecurringTypeStage(state, m) ==
    IF m.text \in {"one-time", "onetime", "one time", "once", "just today", "today only"}
    THEN Continue(Update(state, [task_type |-> "one-time", stage |-> "waiting_for_confirmation"]),
                  "summary")
    ELSE IF m.text \in {"recurring", "repeat", "daily", "weekly", "multiple times"}
    THEN Continue(Update(state, [task_type |-> "recurring", stage |-> "waiting_for_frequency"]),
                  "ask_frequency")
    ELSE IF "daily" \in m.sub \/ "every day" \in m.sub
    THEN Continue(Update(state, [task_type |-> "recurring", recurring_frequency |-> "daily",
                                 stage |-> "waiting_for_confirmation"]), "summary")
    ELSE Continue(state, "ask_recurring_type_again")

\* the confirmation stage for a message that is not an affirmative reply
ConfirmationEdit(state, m, balance) ==
    IF m.text \in {"edit", "change", "modify", "no"}
    THEN Continue(state, "edit_menu")
    ELSE IF "no" \in m.sub /\ ("bet" \in m.sub \/ "rs" \in m.sub)
    THEN IF m.hasAmt
         THEN IF "change" \in m.sub /\ ("goal" \in m.sub \/ "gaol" \in m.sub)
              THEN Continue(Update(state, [amount |-> m.amt, stage |-> "edit_goal"]),
                            "amount_updated_ask_goal")
              ELSE IF m.amt > balance
              THEN Continue(Update(state, [amount |-> m.amt]), "amount_exceeds_balance")
              ELSE Continue(Update(state, [amount |-> m.amt]), "summary")
         ELSE Continue(state, "ask_what_to_modify")
    ELSE IF "goal" \in m.sub \/ "description" \in m.sub
    THEN Continue(Update(state, [stage |-> "edit_goal"]), "ask_new_goal")
    ELSE IF "amount" \in m.sub \/ "bet" \in m.sub \/ "money" \in m.sub
    THEN Continue(Update(state, [stage |-> "waiting_for_amount"]), "ask_new_amount")
    ELSE IF "type" \in m.sub \/ "recurring" \in m.sub \/ "frequency" \in m.sub
    THEN IF Get(state, "task_type", "none") = "recurring"
         THEN Continue(Del(Update(state, [task_type |-> "one-time",
                                          stage |-> "waiting_for_confirmation"]),
                           "recurring_frequency"), "summary")
         ELSE Continue(Update(state, [task_type |-> "recurring",
                                      stage |-> "waiting_for_frequency"]), "ask_frequency")
    ELSE IF m.hasAmt
    THEN IF m.amt > balance
         THEN Continue(state, "amount_exceeds_balance")
         ELSE Continue(Update(state, [amount |-> m.amt]), "summary")
    ELSE IF m.len > 5
    THEN Continue(Update(state, [goal |-> m.goal]), "summary")
    ELSE Reset("confused")

\* the edit-goal stage starting the summary from the new goal alone
EditGoalStageFresh(state, m) ==
    Continue([goal |-> m.goal, stage |-> "waiting_for_confirmation"], "summary")

\* the edit-goal stage
EditGoalStage(state, m) ==
    Continue(Update(state, [goal |-> m.goal, stage |-> "waiting_for_confirmation"]), "summary")

\* _handle_bet_conversation after the escape intents: the stage blocks in the
\* order of the code
BetConversation(state, m, balance) ==
    IF state.stage = "waiting_for_goal" \/ ("goal" \notin DOMAIN state /\ "amount" \notin DOMAIN state)
    THEN GoalStage(state, m)
    ELSE IF RecurringKeyword(state, m)
    THEN Continue(Update(state, [task_type |-> "recurring", stage |-> "waiting_for_frequency"]),
                  "ask_frequency")
    ELSE IF state.stage = "waiting_for_frequency"
    THEN FrequencyStage(state, m)
    ELSE IF state.stage = "waiting_for_amount"
    THEN AmountStage(state, m, _fast_intent_classification(m), balance)
    ELSE IF state.stage = "asking_recurring_type"
    THEN RecurringTypeStage(state, m)
    ELSE IF state.stage = "waiting_for_confirmation"
    THEN IF m.text \in Affirmative
         THEN [session |-> <<state>>, reply |-> "commit", commit |-> TRUE]
         ELSE ConfirmationEdit(state, m, balance)
    ELSE IF state.stage = "edit_goal"
    THEN EditGoalStage(state, m)
    ELSE Reset("confused")

\* user_profile["balance"] as route_message reads it for the handlers
ProfileBalance == profile_balance

EscapeReply(intent) ==
    IF intent = "get_balance" THEN "balance"
    ELSE IF intent = "list_challenges" THEN "challenge_list"
    ELSE IF intent = "help" THEN "help"
    ELSE "cancelled"

Session(state) == Put(bet_conversation_state, Phone, state)

NoSession == Del(bet_conversation_state, Phone)

BetCalls == {"challenge_insert", "wallet_update", "profile_update", "tx_insert"}

\* route_message for a user inside a bet conversation: _handle_bet_conversation,
\* including the creation of the challenge on an affirmative reply in the
\* confirmation stage
handle_bet_conversation(m, f) ==
    /\ Phone \in DOMAIN bet_conversation_state
    /\ LET state == bet_conversation_state[Phone]
           intent == _fast_intent_classification(m)
           balance == ProfileBalance
           step == BetConversation(state, m, balance)
           challenge_title == Get(state, "goal", DefaultTitle)
           amount == Get(state, "amount", DefaultAmount)
           new_balance == balance - amount
           challenge_id == Len(challenges) + 1
       IN  IF intent.intent \in EscapeIntents
           THEN /\ f = {}
                /\ bet_conversation_state' = NoSession
                /\ reply' = EscapeReply(intent.intent)
                /\ UNCHANGED <<ledger, last_ledger_op>>
           ELSE IF ~step.commit
           THEN /\ f = {}
                /\ bet_conversation_state' =
                       IF step.session = <<>> THEN NoSession ELSE Session(step.session[1])
                /\ reply' = step.reply
                /\ UNCHANGED <<ledger, last_ledger_op>>
           ELSE IF "challenge_insert" \in f
           THEN /\ f = {"challenge_insert"}
                /\ reply' = "error_creating_challenge"
                /\ UNCHANGED <<ledger, last_ledger_op, bet_conversation_state>>
           ELSE /\ Len(challenges) < MaxChallenges
                /\ challenges' = Append(challenges,
                                        [status |-> "active", amount |-> amount,
                                         title |-> challenge_title])
                /\ wallet' = update_user_balance_wallet(new_balance, f)
                /\ profile_balance' = update_user_balance_profile(new_balance, f)
                /\ IF "tx_insert" \in f
                   THEN /\ reply' = "error_creating_challenge"
                        /\ UNCHANGED <<transactions, bet_conversation_state>>
                   ELSE /\ transactions' = record_transaction("deduction", 0 - amount, challenge_id)
                        /\ bet_conversation_state' = NoSession
                        /\ reply' = "challenge_created"
                /\ last_ledger_op' = LedgerOp("create", challenge_id, wallet)
                /\ UNCHANGED payment_requests
    /\ faults' = faults + Cardinality(f)
    /\ UNCHANGED <<fund_state, withdrawal_state, attempts>>

\* --------------------------------------------------------- fund conversation
\* FundHandler.handle_add_funds for a user inside the fund conversation:
\* _handle_amount_step and _handle_confirmation_step with _create_payment_request
handle_fund_conversation(m, f) ==
    /\ Phone \notin DOMAIN bet_conversation_state
    /\ Phone \in DOMAIN fund_state
    /\ LET state == fund_state[Phone] IN
       IF state.step = "amount"
       THEN /\ f = {}
            /\ UNCHANGED payment_requests
            /\ IF m.fundNumber < 0
               THEN reply' = "invalid_amount" /\ UNCHANGED fund_state
               ELSE IF m.fundNumber < MinDeposit
               THEN reply' = "below_minimum" /\ UNCHANGED fund_state
               ELSE IF m.fundNumber > MaxDeposit
               THEN reply' = "above_maximum" /\ UNCHANGED fund_state
               ELSE /\ fund_state' = Put(fund_state, Phone,
                                         [step |-> "confirm", amount |-> m.fundNumber])
                    /\ reply' = "fund_summary"
       ELSE IF m.text = "confirm"
       THEN IF "payment_insert" \in f
            THEN /\ f = {"payment_insert"}
                 /\ reply' = "fund_error"
                 /\ UNCHANGED <<payment_requests, fund_state>>
            ELSE /\ Len(payment_requests) < MaxPayments
                 /\ payment_requests' = Append(payment_requests,
                                               [status |-> "pending", amount |-> state.amount])
                 /\ fund_state' = Del(fund_state, Phone)
                 /\ reply' = "upi_payment_instructions"
       ELSE IF m.text = "cancel"
       THEN /\ f = {}
            /\ fund_state' = Del(fund_state, Phone)
            /\ reply' = "fund_cancelled"
            /\ UNCHANGED payment_requests
       ELSE /\ f = {}
            /\ reply' = "confirm_or_cancel"
            /\ UNCHANGED <<payment_requests, fund_state>>
    /\ faults' = faults + Cardinality(f)
    /\ UNCHANGED <<wallet, profile_balance, challenges, transactions, bet_conversation_state,
                   withdrawal_state, last_ledger_op, attempts>>

\* ------------------------------------------------------------ new messages
\* what the language model can answer for a message the fast rules leave open
NLUResults ==
    {Intent("general_chat", 50, FALSE, 0), Intent("add_funds", 90, FALSE, 0),
     Intent("withdraw_funds", 90, FALSE, 0), Intent("create_challenge_intent", 90, FALSE, 0)}
    \cup {Intent("create_challenge_intent", 90, TRUE, a) : a \in Amounts}

\* the intent route_message acts on outside a conversation: the fast
\* classification when its confidence is at least 0.8, else the model's answer
Classified(m, nlu) ==
    LET fast == _fast_intent_classification(m)
    IN  IF fast.intent = "betting_intent" \/ fast.confidence >= 80 THEN fast ELSE nlu

\* IntentRouter._route_by_intent for the intents that do not reach the
\* withdrawal handler: the session it opens, the reply, whether the fund
\* conversation starts
Routed(session, text) == [session |-> session, reply |-> text, fund |-> FALSE]

_route_by_intent(intent, m, balance) ==
    IF intent.intent \in EscapeIntents
    THEN Routed(<<>>, EscapeReply(intent.intent))
    ELSE IF intent.intent \in {"bet_amount", "bet_amount_all"}
    THEN Routed(<<[stage |-> "waiting_for_goal",
                   amount |-> IF intent.intent = "bet_amount" /\ intent.has_amount
                              THEN intent.amount ELSE balance]>>, "amount_noted_ask_goal")
    ELSE IF intent.intent = "create_challenge_with_amount"
    THEN IF intent.amount > balance
         THEN Routed(<<>>, "amount_exceeds_balance")
         ELSE Routed(<<[stage |-> "waiting_for_confirmation", challenge_text |-> m.goal,
                        amount |-> intent.amount, task_type |-> "one-time"]>>, "summary")
    ELSE IF intent.intent = "create_challenge_intent"
    THEN IF balance = 0
         THEN Routed(<<>>, "need_funds")
         ELSE IF intent.has_amount /\ intent.amount # 0
         THEN Routed(<<[stage |-> "waiting_for_confirmation", goal |-> m.clean,
                        amount |-> intent.amount]>>, "summary")
         ELSE Routed(<<[stage |-> "waiting_for_amount", goal |-> m.clean]>>, "ask_amount")
    ELSE IF intent.intent = "add_funds"
    THEN [session |-> <<>>, reply |-> "ask_fund_amount", fund |-> TRUE]
    ELSE Routed(<<>>, "information")

\* the check for an ongoing conversation with the fund conversation left out
InBetConversation == Phone \in DOMAIN bet_conversation_state

\* the two checks route_message makes before it classifies a message: an
\* ongoing bet conversation, an ongoing fund conversation
InConversation == Phone \in DOMAIN bet_conversation_state \/ Phone \in DOMAIN fund_state

\* route_message for a user in no bet or fund conversation, for every intent but withdraw_funds
route_message(m, nlu) ==
    /\ ~InConversation
    /\ LET fast == _fast_intent_classification(m)
           intent == Classified(m, nlu)
           routed == _route_by_intent(intent, m, ProfileBalance)
       IN  /\ intent = fast => nlu = Intent("general_chat", 50, FALSE, 0)
           /\ intent.intent # "withdraw_funds"
           /\ IF fast.intent = "betting_intent"
              THEN /\ bet_conversation_state' = Session([stage |-> "waiting_for_goal"])
                   /\ reply' = IF ProfileBalance = 0 THEN "need_funds" ELSE "ask_goal"
                   /\ UNCHANGED fund_state
              ELSE /\ bet_conversation_state' =
                          IF routed.session = <<>> THEN bet_conversation_state
                          ELSE Session(routed.session[1])
                   /\ fund_state' = IF routed.fund THEN Put(fund_state, Phone, [step |-> "amount"])
                                    ELSE fund_state
                   /\ reply' = routed.reply
    /\ UNCHANGED <<ledger, withdrawal_state, last_ledger_op, faults, attempts>>

\* route_message when the profile cannot be read: the user is treated as unregistered
_handle_unregistered_user ==
    /\ faults < MaxFaults
    /\ faults' = faults + 1
    /\ reply' = "registration"
    /\ UNCHANGED <<ledger, bet_conversation_state, fund_state, withdrawal_state,
                   last_ledger_op, attempts>>

\* --------------------------------------------------------------- withdrawal
WithdrawCalls == {"challenges_read", "withdrawal_insert", "balance_read", "wallet_update",
                  "profile_update", "tx_insert"}

\* WithdrawalHandler.handle_withdraw_funds, reached from route_message when the
\* language model answers withdraw_funds for a message the fast rules leave open
handle_withdraw_funds(m, f) ==
    /\ Phone \notin DOMAIN bet_conversation_state
    /\ Phone \notin DOMAIN fund_state
    /\ Classified(m, Intent("withdraw_funds", 90, FALSE, 0)).intent = "withdraw_funds"
    /\ IF Phone \notin DOMAIN withdrawal_state
       THEN \* _start_withdrawal
            LET active_challenges == get_user_challenges("active", f)
                current_balance == get_user_balance(f)
            IN  /\ f \subseteq {"challenges_read", "balance_read"}
                /\ UNCHANGED <<ledger, last_ledger_op>>
                /\ IF active_challenges # {}
                   THEN reply' = "withdraw_error" /\ UNCHANGED withdrawal_state
                   ELSE IF current_balance <= 0
                   THEN reply' = "no_balance_to_withdraw" /\ UNCHANGED withdrawal_state
                   ELSE /\ withdrawal_state' = Put(withdrawal_state, Phone,
                                                   [step |-> "amount", max_amount |-> current_balance])
                        /\ reply' = "ask_withdrawal_amount"
       ELSE LET state == withdrawal_state[Phone]
                new_balance == get_user_balance(f) - state.amount
            IN
            IF state.step = "amount"
            THEN /\ f = {}
                 /\ UNCHANGED <<ledger, last_ledger_op>>
                 /\ IF m.number < 0
                    THEN reply' = "invalid_amount" /\ UNCHANGED withdrawal_state
                    ELSE IF m.number < MinWithdrawal
                    THEN reply' = "below_minimum" /\ UNCHANGED withdrawal_state
                    ELSE IF m.number > state.max_amount
                    THEN reply' = "above_maximum" /\ UNCHANGED withdrawal_state
                    ELSE /\ withdrawal_state' = Put(withdrawal_state, Phone,
                                 Update(state, [amount |-> m.number, step |-> "payment_details"]))
                         /\ reply' = "ask_payment_details"
            ELSE IF state.step = "payment_details"
            THEN /\ f = {}
                 /\ withdrawal_state' = Put(withdrawal_state, Phone, Update(state, [step |-> "confirm"]))
                 /\ reply' = "withdrawal_summary"
                 /\ UNCHANGED <<ledger, last_ledger_op>>
            ELSE IF m.text = "confirm"
            THEN IF "withdrawal_insert" \in f
                 THEN /\ f = {"withdrawal_insert"}
                      /\ reply' = "withdraw_error"
                      /\ UNCHANGED <<ledger, last_ledger_op, withdrawal_state>>
                 ELSE /\ "challenges_read" \notin f
                      /\ wallet' = update_user_balance_wallet(new_balance, f)
                      /\ profile_balance' = update_user_balance_profile(new_balance, f)
                      /\ IF "tx_insert" \in f
                         THEN /\ reply' = "withdraw_error"
                              /\ UNCHANGED <<transactions, withdrawal_state>>
                         ELSE /\ transactions' = record_transaction("deduction", 0 - state.amount, 0)
                              /\ withdrawal_state' = Del(withdrawal_state, Phone)
                              /\ reply' = "withdrawal_submitted"
                      /\ last_ledger_op' = NoLedgerOp
                      /\ UNCHANGED <<challenges, payment_requests>>
            ELSE /\ f = {}
                 /\ UNCHANGED <<ledger, last_ledger_op>>
                 /\ IF m.text = "cancel"
                    THEN withdrawal_state' = Del(withdrawal_state, Phone)
                         /\ reply' = "withdrawal_cancelled"
                    ELSE reply' = "confirm_or_cancel" /\ UNCHANGED withdrawal_state
    /\ faults' = faults + Cardinality(f)
    /\ UNCHANGED <<bet_conversation_state, fund_state, attempts>>

\* ------------------------------------------------------------ specifications
\* The bot as main.py runs it: the fund conversation, the approval of a paid
\* request, and the conversation that creates a challenge.
Next ==
    \/ \E m \in Messages, nlu \in NLUResults :
          route_message(m, nlu) /\ UNCHANGED <<observation, polling, payment_screenshot_state>>
    \/ \E m \in Messages, f \in FaultSets(BetCalls) :
          handle_bet_conversation(m, f) /\ UNCHANGED <<observation, polling, payment_screenshot_state>>
    \/ \E m \in Messages, f \in FaultSets({"payment_insert"}) :
          handle_fund_conversation(m, f) /\ UNCHANGED <<observation, polling, payment_screenshot_state>>
    \/ \E p \in 1..MaxPayments, f \in FaultSets(ApprovePaymentCalls) :
          ApprovePayment(p, f) /\ UNCHANGED <<observation, polling, payment_screenshot_state>>
    \/ _handle_unregistered_user /\ UNCHANGED <<observation, polling, payment_screenshot_state>>

Spec == Init /\ [][Next]_<<vars, polling, payment_screenshot_state>>

\* Every handler that writes the ledger, with a user who answers the prompts:
\* the messages that lead through the conversations, and the cancellation,
\* proof and withdrawal handlers.
PromptMessages ==
    {m \in Messages : m.text \in {"add funds", "100", "confirm", "gym rs 40", "one-time", "yes",
                                  "withdraw"}}

NextLedger ==
    \/ \E m \in PromptMessages, nlu \in NLUResults :
          route_message(m, nlu) /\ UNCHANGED <<observation, polling, payment_screenshot_state>>
    \/ \E m \in PromptMessages, f \in FaultSets(BetCalls) :
          handle_bet_conversation(m, f) /\ UNCHANGED <<observation, polling, payment_screenshot_state>>
    \/ \E m \in PromptMessages, f \in FaultSets({"payment_insert"}) :
          handle_fund_conversation(m, f) /\ UNCHANGED <<observation, polling, payment_screenshot_state>>
    \/ \E p \in 1..MaxPayments, f \in FaultSets(ApprovePaymentCalls) :
          ApprovePayment(p, f) /\ UNCHANGED <<observation, polling, payment_screenshot_state>>
    \/ \E f \in FaultSets(CancelCalls) :
          handle_cancel_challenge(f) /\ UNCHANGED <<observation, polling, payment_screenshot_state>>
    \/ \E c \in 1..MaxChallenges, deadline_passed \in BOOLEAN, verified \in BOOLEAN,
          f \in FaultSets(ProofCalls) : handle_proof_submission(c, deadline_passed, verified, f) /\ UNCHANGED <<observation, polling, payment_screenshot_state>>
    \/ \E m \in PromptMessages, f \in FaultSets(WithdrawCalls) :
          handle_withdraw_funds(m, f) /\ UNCHANGED <<observation, polling, payment_screenshot_state>>

SpecLedger == Init /\ [][NextLedger]_<<vars, polling, payment_screenshot_state>>

\* The handlers that change the balance, as in the specification above, with
\* a record of the calls that failed in the last one and of the balance that
\* was stored when it started.
NextBalance ==
    \/ \E m \in PromptMessages, nlu \in NLUResults :
          route_message(m, nlu) /\ UNCHANGED <<observation, polling, payment_screenshot_state>>
    \/ \E m \in PromptMessages, f \in FaultSets(BetCalls) :
          handle_bet_conversation(m, f) /\ UNCHANGED <<observation, polling, payment_screenshot_state>>
    \/ \E m \in PromptMessages, f \in FaultSets({"payment_insert"}) :
          handle_fund_conversation(m, f) /\ UNCHANGED <<observation, polling, payment_screenshot_state>>
    \/ \E p \in 1..MaxPayments, f \in FaultSets(ApprovePaymentCalls) :
          /\ ApprovePayment(p, f)
          /\ handled' = [by |-> "_approve_payment", intent |-> "none", stage |-> "none",
                         failed |-> f, balance_before |-> wallet]
          /\ UNCHANGED idle /\ UNCHANGED <<polling, payment_screenshot_state>>
    \/ \E f \in FaultSets(CancelCalls) :
          /\ handle_cancel_challenge(f)
          /\ handled' = [by |-> "handle_cancel_challenge", intent |-> "none", stage |-> "none",
                         failed |-> f, balance_before |-> wallet]
          /\ UNCHANGED idle /\ UNCHANGED <<polling, payment_screenshot_state>>
    \/ \E c \in 1..MaxChallenges, deadline_passed \in BOOLEAN, verified \in BOOLEAN,
          f \in FaultSets(ProofCalls) :
          /\ handle_proof_submission(c, deadline_passed, verified, f)
          /\ handled' = [by |-> "handle_proof_submission", intent |-> "none", stage |-> "none",
                         failed |-> f, balance_before |-> wallet]
          /\ UNCHANGED idle /\ UNCHANGED <<polling, payment_screenshot_state>>
    \/ \E m \in PromptMessages, f \in FaultSets(WithdrawCalls) :
          /\ handle_withdraw_funds(m, f)
          /\ handled' = [by |-> "handle_withdraw_funds", intent |-> "none", stage |-> "none",
                         failed |-> f, balance_before |-> wallet]
          /\ UNCHANGED idle /\ UNCHANGED <<polling, payment_screenshot_state>>

SpecBalance == Init /\ [][NextBalance]_<<vars, polling, payment_screenshot_state>>

\* ------------------------------------------------- calls on the service layer
\* SupabaseClient.update_challenge_status called directly, with the statuses
\* debug_challenge_status.py calls it with: completed, and active to set the
\* challenge back.  The row is updated whatever its status is; the result is
\* True when a row was updated and False otherwise.
RequestedStatuses == {"completed", "active"}

StatusRequest(challenge_id, status, result) ==
    [kind |-> "update_challenge_status", challenge_id |-> challenge_id, status |-> status,
     result |-> result]

UpdateChallengeStatusCall(challenge_id, status, f) ==
    LET failed == "status_update" \in f
        updated == ~failed /\ challenge_id \in DOMAIN challenges
    IN  /\ Len(attempts) < MaxStatusCalls
        /\ challenges' = update_challenge_status(challenges, challenge_id, status, failed)
        /\ attempts' = Append(attempts, StatusRequest(challenge_id, status, updated))
        /\ reply' = IF updated THEN "status_updated" ELSE "status_not_updated"
        /\ last_ledger_op' = NoLedgerOp
        /\ faults' = faults + Cardinality(f)
        /\ UNCHANGED <<wallet, profile_balance, transactions, payment_requests,
                       bet_conversation_state, fund_state, withdrawal_state>>

\* The handlers that create a challenge and change its status, and the direct call.
NextApi ==
    \/ \E m \in PromptMessages, nlu \in NLUResults :
          route_message(m, nlu) /\ UNCHANGED <<observation, polling, payment_screenshot_state>>
    \/ \E m \in PromptMessages, f \in FaultSets(BetCalls) :
          handle_bet_conversation(m, f) /\ UNCHANGED <<observation, polling, payment_screenshot_state>>
    \/ \E m \in PromptMessages, f \in FaultSets({"payment_insert"}) :
          handle_fund_conversation(m, f) /\ UNCHANGED <<observation, polling, payment_screenshot_state>>
    \/ \E p \in 1..MaxPayments, f \in FaultSets(ApprovePaymentCalls) :
          ApprovePayment(p, f) /\ UNCHANGED <<observation, polling, payment_screenshot_state>>
    \/ \E f \in FaultSets(CancelCalls) :
          handle_cancel_challenge(f) /\ UNCHANGED <<observation, polling, payment_screenshot_state>>
    \/ \E c \in 1..MaxChallenges, deadline_passed \in BOOLEAN, verified \in BOOLEAN,
          f \in FaultSets(ProofCalls) : handle_proof_submission(c, deadline_passed, verified, f) /\ UNCHANGED <<observation, polling, payment_screenshot_state>>
    \/ \E c \in 1..MaxChallenges, status \in RequestedStatuses, f \in FaultSets({"status_update"}) :
          UpdateChallengeStatusCall(c, status, f) /\ UNCHANGED <<observation, polling, payment_screenshot_state>>

SpecApi == Init /\ [][NextApi]_<<vars, polling, payment_screenshot_state>>

\* ------------------------------------------------- overlapping creations
\* Two workers on the same database, each creating a challenge for the user.
\* A worker runs the creation one database call at a time: the insert of the
\* row, the write of the balance it computed from the balance it read when it
\* started, the insert of the deduction.  No call takes a lock or compares the
\* balance it overwrites.
Stakes == Amounts \ {0}

DepositMessages == {m \in Messages : m.text \in {"add funds", "100", "confirm"}}

Attempt(kind, amount, balance, pc, outcome) ==
    [kind |-> kind, amount |-> amount, balance |-> balance, pc |-> pc, outcome |-> outcome,
     challenge_id |-> 0, wallet_before |-> wallet,
     overlaps |-> \E i \in DOMAIN attempts : attempts[i].pc # "done"]

\* the confirmation branch of _handle_bet_conversation entered with an
\* affirmative reply: the balance is the one route_message read from the profile
BeginCommit(amount) ==
    /\ Len(attempts) < MaxAttempts
    /\ attempts' = Append(attempts, Attempt("commit", amount, ProfileBalance, "insert", "running"))
    /\ UNCHANGED <<ledger, bet_conversation_state, fund_state, withdrawal_state, reply,
                   last_ledger_op, faults>>

\* SupabaseClient.create_challenge up to its balance check
BeginCreateChallenge(bet_amount) ==
    LET current_balance == get_user_balance({}) IN
    /\ Len(attempts) < MaxAttempts
    /\ attempts' = Append(attempts,
           IF current_balance < bet_amount
           THEN Attempt("create_challenge", bet_amount, current_balance, "done",
                        "insufficient_balance")
           ELSE Attempt("create_challenge", bet_amount, current_balance, "insert", "running"))
    /\ UNCHANGED <<ledger, bet_conversation_state, fund_state, withdrawal_state, reply,
                   last_ledger_op, faults>>

\* the next database call of a creation in flight
CommitStep(i) ==
    /\ i \in DOMAIN attempts
    /\ LET attempt == attempts[i]
           new_balance == attempt.balance - attempt.amount
       IN  /\ attempt.pc # "done"
           /\ IF attempt.pc = "insert"
              THEN /\ challenges' = Append(challenges, [status |-> "active",
                                                        amount |-> attempt.amount,
                                                        title |-> DefaultTitle])
                   /\ attempts' = [attempts EXCEPT ![i].pc = "balance",
                                                   ![i].challenge_id = Len(challenges) + 1]
                   /\ UNCHANGED <<wallet, profile_balance, transactions>>
              ELSE IF attempt.pc = "balance"
              THEN /\ wallet' = update_user_balance_wallet(new_balance, {})
                   /\ profile_balance' = update_user_balance_profile(new_balance, {})
                   /\ attempts' = [attempts EXCEPT ![i].pc = "transaction"]
                   /\ UNCHANGED <<challenges, transactions>>
              ELSE /\ transactions' = record_transaction("deduction", 0 - attempt.amount,
                                                         attempt.challenge_id)
                   /\ attempts' = [attempts EXCEPT ![i].pc = "done",
                                                   ![i].outcome = "challenge_created"]
                   /\ UNCHANGED <<challenges, wallet, profile_balance>>
    /\ UNCHANGED <<payment_requests, bet_conversation_state, fund_state, withdrawal_state, reply,
                   last_ledger_op, faults>>

NextConc ==
    \/ \E m \in DepositMessages, nlu \in NLUResults :
          route_message(m, nlu) /\ UNCHANGED <<observation, polling, payment_screenshot_state>>
    \/ \E m \in DepositMessages, f \in FaultSets({"payment_insert"}) :
          handle_fund_conversation(m, f) /\ UNCHANGED <<observation, polling, payment_screenshot_state>>
    \/ \E p \in 1..MaxPayments, f \in FaultSets(ApprovePaymentCalls) :
          ApprovePayment(p, f) /\ UNCHANGED <<observation, polling, payment_screenshot_state>>
    \/ \E amount \in Stakes :
          BeginCommit(amount) /\ UNCHANGED <<observation, polling, payment_screenshot_state>>
    \/ \E bet_amount \in Stakes :
          BeginCreateChallenge(bet_amount) /\ UNCHANGED <<observation, polling, payment_screenshot_state>>
    \/ \E i \in 1..MaxAttempts :
          CommitStep(i) /\ UNCHANGED <<observation, polling, payment_screenshot_state>>

SpecConc == Init /\ [][NextConc]_<<vars, polling, payment_screenshot_state>>

\* ------------------------------------------------------- the polling loop
\* main.py as it runs: one task, poll_messages, takes the new messages one by
\* one and awaits process_message for each before it takes the next.  The
\* creation of a challenge is run one database call at a time, as in the
\* specification above, so that a message in processing is visible.
NoneInFlight == \A i \in DOMAIN attempts : attempts[i].pc = "done"

\* the loop handing the next message to process_message without awaiting it
SpawnProcessMessage(amount) == BeginCommit(amount)

\* one iteration of the loop for an affirmative reply in the confirmation
\* stage: it starts only when the await of the previous message has returned
poll_messages(amount) == NoneInFlight /\ BeginCommit(amount)

NextPoll ==
    \/ \E m \in DepositMessages, nlu \in NLUResults :
          NoneInFlight /\ route_message(m, nlu) /\ UNCHANGED <<observation, polling, payment_screenshot_state>>
    \/ \E m \in DepositMessages, f \in FaultSets({"payment_insert"}) :
          NoneInFlight /\ handle_fund_conversation(m, f) /\ UNCHANGED <<observation, polling, payment_screenshot_state>>
    \/ \E p \in 1..MaxPayments, f \in FaultSets(ApprovePaymentCalls) :
          NoneInFlight /\ ApprovePayment(p, f) /\ UNCHANGED <<observation, polling, payment_screenshot_state>>
    \/ \E amount \in Stakes :
          poll_messages(amount) /\ UNCHANGED <<observation, polling, payment_screenshot_state>>
    \/ \E i \in 1..MaxAttempts :
          CommitStep(i) /\ UNCHANGED <<observation, polling, payment_screenshot_state>>

SpecPoll == Init /\ [][NextPoll]_<<vars, polling, payment_screenshot_state>>

\* ---------------------------------------------------- the message store
\* poll_messages against the bridge's table of stored messages.  Timestamps
\* are whole numbers; the watermark starts below all of them.  The query's
\* LIMIT 50 and the cache's limit of 1000 keys are scaled down.
MaxMessages == 3
MaxTime == 2
MaxDispatch == 2
BatchLimit == 2
CacheLimit == 1

\* the bridge stores an inbound message
StoreMessage(timestamp, sender) ==
    /\ Len(stored_messages) < MaxMessages
    /\ stored_messages' = Append(stored_messages, [timestamp |-> timestamp, sender |-> sender])
    /\ dispatched' = Append(dispatched, 0)
    /\ UNCHANGED <<vars, last_processed_time, processed_messages, payment_screenshot_state>>

\* the ids of the first rows with timestamp > since, ORDER BY timestamp ASC
\* (rows of one timestamp in insertion order) LIMIT 50
get_new_messages_from_db(since) ==
    LET waiting == {i \in DOMAIN stored_messages : stored_messages[i].timestamp > since}
        before(i) == {j \in waiting :
                         \/ stored_messages[j].timestamp < stored_messages[i].timestamp
                         \/ /\ stored_messages[j].timestamp = stored_messages[i].timestamp
                            /\ j < i}
        n == IF Cardinality(waiting) < BatchLimit THEN Cardinality(waiting) ELSE BatchLimit
    IN  [k \in 1..n |-> CHOOSE i \in waiting : Cardinality(before(i)) = k - 1]

\* one iteration of the loop of poll_messages; raises_on is the message whose
\* processing raises out of process_message (0: none does), which ends the
\* iteration in the loop's except: the watermark is not moved and the cache
\* is not cleaned
poll_iteration(raises_on) ==
    LET recent_messages == get_new_messages_from_db(last_processed_time)
        loop[k \in 0..Len(recent_messages)] ==
            IF k = 0
            THEN [processed |-> processed_messages, newest |-> last_processed_time,
                  counts |-> dispatched, raised |-> FALSE]
            ELSE LET before == loop[k - 1]
                     id == recent_messages[k]
                     message == stored_messages[id]
                 IN  IF \/ before.raised
                        \/ message.sender = ""
                        \/ message.timestamp <= last_processed_time
                        \/ id \in before.processed
                     THEN before
                     ELSE [processed |-> before.processed \cup {id},
                           newest |-> IF message.timestamp > before.newest
                                      THEN message.timestamp ELSE before.newest,
                           counts |-> [before.counts EXCEPT ![id] = @ + 1],
                           raised |-> id = raises_on]
        after == loop[Len(recent_messages)]
    IN  /\ raises_on # 0 => after.raised
        /\ \A id \in DOMAIN dispatched : after.counts[id] <= MaxDispatch
        /\ dispatched' = after.counts
        /\ last_processed_time' = IF after.raised THEN last_processed_time ELSE after.newest
        /\ processed_messages' =
               IF ~after.raised /\ Cardinality(after.processed) > CacheLimit
               THEN {} ELSE after.processed
        /\ UNCHANGED <<vars, stored_messages, payment_screenshot_state>>

NextInbox ==
    \/ \E timestamp \in 1..MaxTime, sender \in {"", Phone} : StoreMessage(timestamp, sender)
    \/ \E raises_on \in 0..MaxMessages : poll_iteration(raises_on)

SpecInbox == Init /\ [][NextInbox]_<<vars, polling, payment_screenshot_state>>

\* the loop never stops polling, and a failure of processing is not permanent
SpecInboxFair == SpecInbox /\ WF_polling(poll_iteration(0))

\* ------------------------------------------------------- the retry wrapper
\* utils.retry.with_retry around ProofHandler.handle_proof_submission: the
\* wrapper calls the function again, up to max_retries times, when the call
\* raised.  handled records the request the wrapper is working on, the number
\* of calls it has made for it and how the last call ended.
max_retries == 3

\* the function without its try/except: a failed database call raises
ProofRaisesOnFault(f) == f # {}

\* whether an exception leaves handle_proof_submission: its body is one
\* try block whose except clause returns the error reply
ProofRaises(f) == FALSE

\* the wrapper has a call that raised and retries left
RetryPending ==
    /\ handled.by = "with_retry"
    /\ handled.intent = "raised"
    /\ handled.calls <= max_retries

\* one call of the wrapped function by async_wrapper: the first call for a
\* new request, or the next call for the request whose last call raised
with_retry(challenge_id, deadline_passed, verified, f) ==
    /\ RetryPending => handled.request = <<challenge_id, deadline_passed, verified>>
    /\ handle_proof_submission(challenge_id, deadline_passed, verified, f)
    /\ handled' = [by |-> "with_retry",
                   intent |-> IF ProofRaises(f) THEN "raised" ELSE "returned",
                   stage |-> "none",
                   calls |-> IF RetryPending THEN handled.calls + 1 ELSE 1,
                   request |-> <<challenge_id, deadline_passed, verified>>]
    /\ UNCHANGED idle

NextRetry ==
    \/ \E m \in PromptMessages, nlu \in NLUResults :
          ~RetryPending /\ route_message(m, nlu) /\ UNCHANGED <<observation, polling, payment_screenshot_state>>
    \/ \E m \in PromptMessages, f \in FaultSets(BetCalls) :
          ~RetryPending /\ handle_bet_conversation(m, f) /\ UNCHANGED <<observation, polling, payment_screenshot_state>>
    \/ \E m \in PromptMessages, f \in FaultSets({"payment_insert"}) :
          ~RetryPending /\ handle_fund_conversation(m, f) /\ UNCHANGED <<observation, polling, payment_screenshot_state>>
    \/ \E p \in 1..MaxPayments, f \in FaultSets(ApprovePaymentCalls) :
          ~RetryPending /\ ApprovePayment(p, f) /\ UNCHANGED <<observation, polling, payment_screenshot_state>>
    \/ \E c \in 1..MaxChallenges, deadline_passed \in BOOLEAN, verified \in BOOLEAN,
          f \in FaultSets(ProofCalls) : with_retry(c, deadline_passed, verified, f)
             /\ UNCHANGED <<polling, payment_screenshot_state>>

SpecRetry == Init /\ [][NextRetry]_<<vars, polling, payment_screenshot_state>>

\* ------------------------------------------------- payment screenshot
\* What the vision model reads off a payment screenshot (the fields of its
\* JSON answer), and what the bot makes of it.
expected_upi_id == "devtalele0@okhdfcbank"

Recipients == {"devtalele0@okhdfcbank", "devtalele0", "someone@upi", ""}

Statuses == {"SUCCESS", "completed", "DONE", "FAILED"}

\* amounts read off the screenshot, around the thresholds for a request of 100
DetectedAmounts == {40, 79, 80, 94, 95, 100, 105, 106, 110, 111}

VerificationResults ==
    [transaction_status : Statuses, recipient_upi : Recipients, upi_matches : BOOLEAN,
     timestamp_valid : BOOLEAN, amount_paid : DetectedAmounts]

\* str.upper() on the statuses above
Upper(status) == IF status = "completed" THEN "COMPLETED" ELSE status

NotFailedStatuses == {"SUCCESS", "COMPLETED", "DONE", "PENDING"}

SuccessStatuses == {"SUCCESS", "COMPLETED", "DONE"}

\* the recipient is the expected id, or one is a substring of the other
RecipientMatches(recipient_upi) == recipient_upi \in {expected_upi_id, "devtalele0"}

CounterpartyMatches(result) ==
    \/ result.upi_matches
    \/ result.recipient_upi # "" /\ RecipientMatches(result.recipient_upi)

Abs(n) == IF n < 0 THEN -n ELSE n

\* amount_diff_percent <= 5, for expected_amount > 0
WithinFivePercent(amount_paid, expected_amount) ==
    100 * Abs(amount_paid - expected_amount) <= 5 * expected_amount

MoreThanEightyPercent(amount_paid, expected_amount) == 10 * amount_paid > 8 * expected_amount

\* amount_paid >= expected_amount * 0.8
EnoughPaid(amount_paid, expected_amount) == 10 * amount_paid >= 8 * expected_amount

PaidExtraInWindow(result, expected_amount) ==
    /\ 10 * result.amount_paid > 11 * expected_amount
    /\ CounterpartyMatches(result)
    /\ Upper(result.transaction_status) \in SuccessStatuses
    /\ result.timestamp_valid

\* the special case: the user paid more than 1.1 times the expected amount
PaidExtra(result, expected_amount) ==
    /\ 10 * result.amount_paid > 11 * expected_amount
    /\ CounterpartyMatches(result)
    /\ Upper(result.transaction_status) \in SuccessStatuses

_enhance_verification_result(result, expected_amount) ==
    LET upi_matches == CounterpartyMatches(result)
        succeeded == Upper(result.transaction_status) \in SuccessStatuses
        action ==
            IF succeeded
            THEN IF upi_matches /\ result.timestamp_valid
                 THEN IF EnoughPaid(result.amount_paid, expected_amount)
                      THEN IF WithinFivePercent(result.amount_paid, expected_amount)
                           THEN "credit_full"
                           ELSE "credit_partial"
                      ELSE "manual_review"
                 ELSE "manual_review"
            ELSE "reject"
    IN  [amount_paid |-> result.amount_paid,
         upi_matches |-> upi_matches,
         timestamp_valid |-> result.timestamp_valid,
         transaction_status |-> Upper(result.transaction_status),
         suggested_action |->
             IF PaidExtra(result, expected_amount)
             THEN "credit_partial"
             ELSE action]

_approve_payment(payment_id, amount, f) ==
    LET new_balance == get_user_balance(f) + amount
    IN  IF "payment_update" \in f
        THEN /\ f = {"payment_update"}
             /\ reply' = "credit_failed"
             /\ UNCHANGED ledger
        ELSE /\ payment_requests' = [payment_requests EXCEPT ![payment_id].status = "approved"]
             /\ wallet' = update_user_balance_wallet(new_balance, f)
             /\ profile_balance' = update_user_balance_profile(new_balance, f)
             /\ IF "tx_insert" \in f
                THEN reply' = "credit_failed" /\ UNCHANGED transactions
                ELSE /\ transactions' = record_transaction("deposit", amount, 0)
                     /\ reply' = "payment_credited"
             /\ UNCHANGED challenges

CreditDetected(suggested_action, expected_amount, amount_paid) == amount_paid

credit_amount(suggested_action, expected_amount, amount_paid) ==
    IF suggested_action = "credit_full" THEN expected_amount ELSE amount_paid

MinCredit == 50

\* what handle_payment_screenshot does with the verification result
ProcessVerification(payment_id, suggested_action, amount, f) ==
    IF suggested_action = "credit_full"
    THEN _approve_payment(payment_id, amount, f)
    ELSE IF suggested_action = "credit_partial"
    THEN IF amount >= MinCredit
         THEN _approve_payment(payment_id, amount, f)
         ELSE /\ f = {}
              /\ reply' = "payment_too_low"
              /\ UNCHANGED ledger
    ELSE IF suggested_action = "reject"
    THEN /\ f = {}
         /\ payment_requests' = [payment_requests EXCEPT ![payment_id].status = "rejected"]
         /\ reply' = "payment_rejected"
         /\ UNCHANGED <<wallet, profile_balance, challenges, transactions>>
    ELSE /\ f = {}
         /\ payment_requests' = [payment_requests EXCEPT ![payment_id].status = "pending"]
         /\ reply' = "manual_review"
         /\ UNCHANGED <<wallet, profile_balance, challenges, transactions>>

\* the screenshot of a payment whose reading has every field
handle_payment_screenshot(payment_id, result, f) ==
    /\ payment_id \in DOMAIN payment_requests
    /\ payment_requests[payment_id].status = "pending"
    /\ LET expected_amount == payment_requests[payment_id].amount
           enhanced == _enhance_verification_result(result, expected_amount)
           suggested_action == enhanced.suggested_action
           amount == credit_amount(suggested_action, expected_amount, enhanced.amount_paid)
       IN  /\ ProcessVerification(payment_id, suggested_action, amount, f)
           /\ handled' = [by |-> "handle_payment_screenshot", intent |-> suggested_action,
                          stage |-> "none", result |-> result, failed |-> f,
                          expected_amount |-> expected_amount, credit_amount |-> amount,
                          balance_before |-> wallet,
                          payment_id |-> payment_id]
    /\ last_ledger_op' = NoLedgerOp
    /\ faults' = faults + Cardinality(f)
    /\ UNCHANGED <<bet_conversation_state, fund_state, withdrawal_state, attempts, idle>>

\* ------------------------------------------------ screenshot extraction
\* What comes back from the vision model: no answer at all, text that is not
\* JSON, or a JSON object that may lack fields or hold an amount that is not a
\* number.
FailedExtractions ==
    {[kind |-> k] : k \in {"unavailable", "api_error", "no_candidates", "exception", "unparseable"}}

Omit(result, missing) == [k \in DOMAIN result \ missing |-> result[k]]

\* result.get(field, default) for every field the decision reads
WithDefaults(result) ==
    [transaction_status |-> Get(result, "transaction_status", "UNKNOWN"),
     recipient_upi |-> Get(result, "recipient_upi", ""),
     upi_matches |-> Get(result, "upi_matches", FALSE),
     timestamp_valid |-> Get(result, "timestamp_valid", FALSE),
     amount_paid |-> Get(result, "amount_paid", 0)]

\* the answer of the three error responses
ErrorResponse ==
    [amount_paid |-> 0, upi_matches |-> FALSE, timestamp_valid |-> FALSE,
     transaction_status |-> "UNKNOWN", suggested_action |-> "manual_review"]

verify_payment_screenshot(extraction, expected_amount) ==
    IF extraction.kind # "parsed"
    THEN ErrorResponse
    ELSE IF DOMAIN extraction.json = {}
    THEN ErrorResponse
    ELSE _enhance_verification_result(WithDefaults(extraction.json), expected_amount)

\* the concerns _enhance_verification_result appends to those of the reading
AddedConcerns(result, expected_amount) ==
    LET upi_matches == CounterpartyMatches(result)
    IN  IF Upper(result.transaction_status) \in SuccessStatuses
        THEN IF upi_matches /\ result.timestamp_valid
             THEN IF EnoughPaid(result.amount_paid, expected_amount)
                  THEN <<>>
                  ELSE <<"amount_too_low">>
             ELSE (IF upi_matches THEN <<>> ELSE <<"upi_mismatch">>)
                  \o (IF result.timestamp_valid THEN <<>> ELSE <<"timestamp_outside_window">>)
        ELSE <<"transaction_not_successful">>

DetectedStatuses == {"SUCCESS", "FAILED", "PENDING", "UNKNOWN"}

\* readings around the thresholds of a request of e: 0.8 e, e -+ 15%, e -+ 10,
\* e -+ 5%, 1.1 e, each with its neighbour
AmountsAround(e) ==
    {(8 * e) \div 10 - 1, (8 * e) \div 10, e - (3 * e) \div 20, e - 11, e - 10,
     e - e \div 20 - 1, e - e \div 20, e, e + e \div 20, e + e \div 20 + 1,
     e + 10, e + 11, e + e \div 10, e + e \div 10 + 1, e + (3 * e) \div 20}

Readings(e) ==
    [transaction_status : DetectedStatuses, recipient_upi : {expected_upi_id, "someone@upi"},
     upi_matches : BOOLEAN, timestamp_valid : BOOLEAN, amount_paid : AmountsAround(e)]

\* a reading of a good or of a failed payment of e, from which fields are dropped
CleanReadings(e) ==
    [transaction_status : {"SUCCESS", "FAILED"}, recipient_upi : {expected_upi_id},
     upi_matches : {TRUE}, timestamp_valid : {TRUE}, amount_paid : {e}]

\* the fields of the answer that the decision reads
ReadingFields == {"transaction_status", "recipient_upi", "upi_matches", "timestamp_valid", "amount_paid"}

MissingFields ==
    {{"transaction_status"}, {"amount_paid"}, {"timestamp_valid"}, {"recipient_upi", "upi_matches"},
     {"transaction_status", "recipient_upi", "upi_matches", "timestamp_valid", "amount_paid"}}

Extractions(e) ==
    FailedExtractions
    \cup {[kind |-> "parsed", json |-> r] : r \in Readings(e)}
    \cup {[kind |-> "parsed", json |-> Omit(r, missing)] : r \in CleanReadings(e), missing \in MissingFields}
    \cup {[kind |-> "unusable_amount", json |-> Omit(r, {"amount_paid"})] : r \in CleanReadings(e)}

\* the screenshot of a payment, whatever the vision model makes of it
screenshot_received(payment_id, extraction, f) ==
    /\ payment_id \in DOMAIN payment_requests
    /\ payment_requests[payment_id].status = "pending"
    /\ LET expected_amount == payment_requests[payment_id].amount
           verification_result == verify_payment_screenshot(extraction, expected_amount)
           suggested_action == verification_result.suggested_action
           amount == credit_amount(suggested_action, expected_amount, verification_result.amount_paid)
           usable == extraction.kind = "parsed" /\ DOMAIN extraction.json # {}
       IN  /\ ProcessVerification(payment_id, suggested_action, amount, f)
           /\ handled' = [by |-> "handle_payment_screenshot", intent |-> suggested_action,
                          stage |-> "none", extraction |-> extraction, usable |-> usable,
                          result |-> IF usable THEN WithDefaults(extraction.json)
                                     ELSE WithDefaults(<<>>),
                          concerns |-> IF usable
                                       THEN AddedConcerns(WithDefaults(extraction.json), expected_amount)
                                       ELSE <<"extraction_failed">>,
                          failed |-> f, expected_amount |-> expected_amount,
                          credit_amount |-> amount, balance_before |-> wallet,
                          payment_id |-> payment_id]
    /\ last_ledger_op' = NoLedgerOp
    /\ faults' = faults + Cardinality(f)
    /\ UNCHANGED <<bet_conversation_state, fund_state, withdrawal_state, attempts, idle>>


\* ---------------------------------------------------------------- dialogue
\* The dialogue as the user sees it, with no database failure: every message
\* is recorded with the handler that took it, the intent the fast rules give
\* it, whether a bet conversation was open and whether the user had been
\* silent for longer than a session timeout.
Inbound(by, m) ==
    [by |-> by, intent |-> _fast_intent_classification(m).intent,
     stage |-> IF Phone \in DOMAIN bet_conversation_state
               THEN bet_conversation_state[Phone].stage ELSE "none"]

\* time passes with no message from the user, for longer than any session
\* timeout; no handler and no task of main.py runs on the conversation
\* dictionaries meanwhile
Tick ==
    /\ ~idle
    /\ idle' = TRUE
    /\ UNCHANGED <<ledger, bet_conversation_state, fund_state, withdrawal_state, reply,
                   last_ledger_op, faults, attempts, handled>>

\* what the user types in the dialogue specification: the escapes, the ways
\* into a conversation, the deposit, amounts, types and edits
DialogueMessages ==
    {m \in Messages : m.text \in
        {"cancel", "help", "balance", "my challenges",
         "i want to bet", "bet rs 0 on chess",
         "add funds", "100", "confirm",
         "rs 0", "rs 40", "rs 100",
         "one-time", "recurring",
         "yes", "edit", "goal", "amount", "type",
         "no bet rs 100"}}

NextDialogue ==
    \/ \E m \in DialogueMessages, nlu \in NLUResults :
          route_message(m, nlu) /\ handled' = Inbound("route_message", m) /\ idle' = FALSE
             /\ UNCHANGED <<polling, payment_screenshot_state>>
    \/ \E m \in DialogueMessages :
          handle_bet_conversation(m, {}) /\ handled' = Inbound("_handle_bet_conversation", m) /\ idle' = FALSE
             /\ UNCHANGED <<polling, payment_screenshot_state>>
    \/ \E m \in DialogueMessages :
          handle_fund_conversation(m, {}) /\ handled' = Inbound("handle_fund_conversation", m) /\ idle' = FALSE
             /\ UNCHANGED <<polling, payment_screenshot_state>>
    \/ \E p \in 1..MaxPayments :
          ApprovePayment(p, {}) /\ UNCHANGED <<observation, polling, payment_screenshot_state>>
    \/ Tick /\ UNCHANGED <<polling, payment_screenshot_state>>

SpecDialogue == Init /\ [][NextDialogue]_<<vars, polling, payment_screenshot_state>>

\* the deposit dialogue followed by the screenshot of the payment
NextReconcile ==
    \/ \E m \in DepositMessages, nlu \in NLUResults :
          route_message(m, nlu) /\ handled' = Inbound("route_message", m) /\ UNCHANGED idle
             /\ UNCHANGED <<polling, payment_screenshot_state>>
    \/ \E m \in DepositMessages, f \in FaultSets({"payment_insert"}) :
          handle_fund_conversation(m, f) /\ handled' = Inbound("handle_fund_conversation", m)
             /\ UNCHANGED idle /\ UNCHANGED <<polling, payment_screenshot_state>>
    \/ \E p \in 1..MaxPayments, result \in VerificationResults, f \in FaultSets(ApprovePaymentCalls) :
          handle_payment_screenshot(p, result, f) /\ UNCHANGED <<polling, payment_screenshot_state>>

SpecReconcile == Init /\ [][NextReconcile]_<<vars, polling, payment_screenshot_state>>

\* deposits of 50 and of 200, typed as plain numbers
AmountMessages ==
  {
    [text |-> "50", hits |-> {}, sub |-> {}, hasAmt |-> FALSE, amt |-> 0, hasDigit |-> TRUE,
     words |-> 1, len |-> 2, goal |-> "(other text)", clean |-> "(other text)",
     cleanSetup |-> FALSE, rest |-> "(other text)", restLen |-> 2, restSetup |-> FALSE,
     betGoalLen |-> 2, number |-> 50, fundNumber |-> 50],
    [text |-> "200", hits |-> {}, sub |-> {}, hasAmt |-> FALSE, amt |-> 0, hasDigit |-> TRUE,
     words |-> 1, len |-> 3, goal |-> "(other text)", clean |-> "(other text)",
     cleanSetup |-> FALSE, rest |-> "(other text)", restLen |-> 3, restSetup |-> FALSE,
     betGoalLen |-> 3, number |-> 200, fundNumber |-> 200]
  }

ScreenshotMessages == DepositMessages \cup AmountMessages

\* the deposit dialogue for 50, 100 or 200 followed by screenshots
NextScreenshot ==
    \/ \E m \in ScreenshotMessages, nlu \in NLUResults :
          route_message(m, nlu) /\ handled' = Inbound("route_message", m) /\ UNCHANGED idle
             /\ UNCHANGED <<polling, payment_screenshot_state>>
    \/ \E m \in ScreenshotMessages :
          handle_fund_conversation(m, {}) /\ handled' = Inbound("handle_fund_conversation", m)
             /\ UNCHANGED idle /\ UNCHANGED <<polling, payment_screenshot_state>>
    \/ \E p \in 1..MaxPayments, f \in FaultSets(ApprovePaymentCalls) :
          \E extraction \in Extractions(IF p \in DOMAIN payment_requests
                                        THEN payment_requests[p].amount ELSE 0) :
             screenshot_received(p, extraction, f) /\ UNCHANGED <<polling, payment_screenshot_state>>

SpecScreenshot == Init /\ [][NextScreenshot]_<<vars, polling, payment_screenshot_state>>

\* handle_payment_screenshot when a call outside _approve_payment raises: the
\* upload of the screenshot (the reply quotes str(storage_error)), or the
\* status update of the reject and manual-review branches, which ends in the
\* handler's outer except (the reply quotes the exception's type name and the
\* first 200 characters of its text).  No table is written.
handle_payment_screenshot_raises(payment_id, extraction, call) ==
    /\ payment_id \in DOMAIN payment_requests
    /\ payment_requests[payment_id].status = "pending"
    /\ faults < MaxFaults
    /\ LET expected_amount == payment_requests[payment_id].amount
           suggested_action ==
               verify_payment_screenshot(extraction, expected_amount).suggested_action
       IN  /\ call = "status_update" => suggested_action \in {"reject", "manual_review"}
           /\ reply' = IF call = "upload_file" THEN "screenshot_storage_failed"
                       ELSE "payment_processing_error"
           /\ handled' = [by |-> "handle_payment_screenshot_raises", intent |-> suggested_action,
                          stage |-> "none", failed |-> {call}, payment_id |-> payment_id]
    /\ faults' = faults + 1
    /\ UNCHANGED <<ledger, bet_conversation_state, fund_state, withdrawal_state,
                   last_ledger_op, attempts, idle>>

\* the deposit dialogue and screenshots, with the failures the user is told of
\* and a user who wants to leave the fund conversation
NextReplies ==
    \/ NextScreenshot
    \/ \E m \in {m \in Messages : m.text = "cancel"} :
          handle_fund_conversation(m, {}) /\ handled' = Inbound("handle_fund_conversation", m)
             /\ UNCHANGED idle /\ UNCHANGED <<polling, payment_screenshot_state>>
    \/ \E p \in 1..MaxPayments, call \in {"upload_file", "status_update"} :
          \E extraction \in Extractions(IF p \in DOMAIN payment_requests
                                        THEN payment_requests[p].amount ELSE 0) :
             handle_payment_screenshot_raises(p, extraction, call)
             /\ UNCHANGED <<polling, payment_screenshot_state>>

SpecReplies == Init /\ [][NextReplies]_<<vars, polling, payment_screenshot_state>>

\* -------------------------------------------------- credits per request
\* history: how often a balance computed for a deposit was written to the
\* wallet, per payment request; kept in `handled` from one step to the next
credits_applied ==
    IF "credits" \in DOMAIN handled THEN handled.credits ELSE [p \in 1..MaxPayments |-> 0]

\* process_pending_payments.main: every pending request is credited, its
\* deposit recorded and its status set to approved, in this order; an
\* exception ends the work on that request only.  The calls in f fail while
\* request `failing` is processed.
process_pending_payments(failing, f) ==
    LET loop[k \in 0..Len(payment_requests)] ==
            IF k = 0
            THEN [wallet |-> wallet, profile_balance |-> profile_balance,
                  transactions |-> transactions, payment_requests |-> payment_requests,
                  credits |-> credits_applied]
            ELSE LET before == loop[k - 1]
                     g == IF k = failing THEN f ELSE {}
                     amount == payment_requests[k].amount
                     current_balance == IF "balance_read" \in g THEN 0 ELSE before.wallet
                     new_balance == current_balance + amount
                     written == "wallet_update" \notin g
                     recorded == "tx_insert" \notin g
                 IN  IF payment_requests[k].status # "pending"
                     THEN before
                     ELSE [wallet |-> IF written THEN new_balance ELSE before.wallet,
                           profile_balance |->
                               IF written /\ "profile_update" \notin g
                               THEN new_balance ELSE before.profile_balance,
                           transactions |->
                               IF recorded
                               THEN before.transactions
                                       (+) SetToBag({Transaction("deposit", amount, 0)})
                               ELSE before.transactions,
                           payment_requests |->
                               IF recorded /\ "payment_update" \notin g
                               THEN [before.payment_requests EXCEPT ![k].status = "approved"]
                               ELSE before.payment_requests,
                           credits |-> IF written
                                       THEN [before.credits EXCEPT ![k] = @ + 1]
                                       ELSE before.credits]
        after == loop[Len(payment_requests)]
    IN  /\ failing \in DOMAIN payment_requests
        /\ payment_requests[failing].status = "pending"
        /\ wallet' = after.wallet
        /\ profile_balance' = after.profile_balance
        /\ transactions' = after.transactions
        /\ payment_requests' = after.payment_requests
        /\ handled' = [by |-> "process_pending_payments", intent |-> "none", stage |-> "none",
                       failed |-> f, credits |-> after.credits]
        /\ last_ledger_op' = NoLedgerOp
        /\ faults' = faults + Cardinality(f)
        /\ UNCHANGED <<challenges, bet_conversation_state, fund_state, withdrawal_state, reply,
                       attempts, idle>>

\* the deposit dialogue, the approval of a screenshot that verified, and the
\* script that processes pending requests, with the credits counted
NextCredits ==
    \/ \E m \in ScreenshotMessages, nlu \in NLUResults :
          /\ route_message(m, nlu)
          /\ handled' = [by |-> "route_message", intent |-> "none", stage |-> "none",
                         failed |-> {}, credits |-> credits_applied]
          /\ UNCHANGED <<idle, polling, payment_screenshot_state>>
    \/ \E m \in ScreenshotMessages, f \in FaultSets({"payment_insert"}) :
          /\ handle_fund_conversation(m, f)
          /\ handled' = [by |-> "handle_fund_conversation", intent |-> "none", stage |-> "none",
                         failed |-> f, credits |-> credits_applied]
          /\ UNCHANGED <<idle, polling, payment_screenshot_state>>
    \/ \E p \in 1..MaxPayments, f \in FaultSets(ApprovePaymentCalls) :
          /\ ApprovePayment(p, f)
          /\ handled' = [by |-> "_approve_payment", intent |-> "none", stage |-> "none",
                         failed |-> f,
                         credits |-> IF "payment_update" \notin f /\ "wallet_update" \notin f
                                     THEN [credits_applied EXCEPT ![p] = @ + 1]
                                     ELSE credits_applied]
          /\ UNCHANGED <<idle, polling, payment_screenshot_state>>
    \/ \E p \in 1..MaxPayments, f \in FaultSets(ApprovePaymentCalls) :
          process_pending_payments(p, f) /\ UNCHANGED <<polling, payment_screenshot_state>>

SpecCredits == Init /\ [][NextCredits]_<<vars, polling, payment_screenshot_state>>

\* ------------------------------------------------ requests of two users
\* Two users deposit.  Here `wallet` and `profile_balance` hold a balance per
\* user, and a row of payment_requests holds its user_id and, as history, the
\* user who created it.  Every request is younger than 24 hours, and there are
\* fewer than the 5 that the queries for pending requests return.
MaxRequests == 2

Users == {"u1", "u2"}

InitOwners ==
    /\ wallet = [u \in Users |-> 0]
    /\ profile_balance = [u \in Users |-> 0]
    /\ challenges = <<>>
    /\ transactions = EmptyBag
    /\ payment_requests = <<>>
    /\ bet_conversation_state = EmptyDict
    /\ fund_state = EmptyDict
    /\ withdrawal_state = EmptyDict
    /\ reply = "none"
    /\ last_ledger_op = NoLedgerOp
    /\ faults = 0
    /\ attempts = <<>>
    /\ idle = FALSE
    /\ stored_messages = <<>>
    /\ last_processed_time = 0
    /\ processed_messages = {}
    /\ dispatched = <<>>
    /\ payment_screenshot_state = EmptyDict
    /\ handled = NoInbound

\* 'confirm' in the fund conversation of user_id, whose amount step stored
\* `amount`: the request is inserted and the user is expected to send a
\* screenshot for it.  The entry of fund_state that the amount step made is
\* deleted here; the conversation itself is left out.
_handle_confirmation_step(user_id, amount) ==
    /\ Len(payment_requests) < MaxRequests
    /\ payment_requests' = Append(payment_requests,
                                  [user_id |-> user_id, created_by |-> user_id,
                                   amount |-> amount, status |-> "pending"])
    /\ payment_screenshot_state' =
           [u \in DOMAIN payment_screenshot_state \cup {user_id} |->
               IF u = user_id
               THEN [payment_id |-> Len(payment_requests) + 1, amount |-> amount]
               ELSE payment_screenshot_state[u]]
    /\ reply' = "upi_payment_instructions"
    /\ handled' = [by |-> "_handle_confirmation_step", intent |-> "none", stage |-> "none",
                   sender |-> user_id, payment_id |-> Len(payment_requests) + 1,
                   credited |-> FALSE]
    /\ UNCHANGED <<wallet, profile_balance, challenges, transactions, bet_conversation_state,
                   fund_state, withdrawal_state, last_ledger_op, faults, attempts, idle,
                   polling>>

\* the pending requests of the user; when there is none, every pending
\* request; nothing when the query fails
_get_pending_payments(user_id, failed) ==
    LET pending == {p \in DOMAIN payment_requests : payment_requests[p].status = "pending"}
        own == {p \in pending : payment_requests[p].user_id = user_id}
    IN  IF failed THEN {} ELSE IF own # {} THEN own ELSE pending

\* handle_payment_screenshot for a screenshot that user_id sends: the choice
\* of the request, the decision on the reading, and what is done with it
handle_payment_screenshot_of(user_id, result, failed) ==
    LET pending_payments == _get_pending_payments(user_id, failed)
        waiting == user_id \in DOMAIN payment_screenshot_state
        all_pending == {p \in DOMAIN payment_requests : payment_requests[p].status = "pending"}
        most_recent(S) == CHOOSE p \in S : \A q \in S : q <= p
        assigned == pending_payments = {} /\ ~waiting
    IN  IF assigned /\ all_pending = {}
        THEN /\ reply' = "no_payment_request"
             /\ handled' = [by |-> "handle_payment_screenshot", intent |-> "none",
                            stage |-> "none", sender |-> user_id, payment_id |-> 0,
                            credited |-> FALSE]
             /\ UNCHANGED <<ledger, payment_screenshot_state>>
        ELSE LET payment_id == IF assigned THEN most_recent(all_pending)
                               ELSE IF waiting THEN payment_screenshot_state[user_id].payment_id
                               ELSE most_recent(pending_payments)
                 expected_amount == IF waiting THEN payment_screenshot_state[user_id].amount
                                    ELSE payment_requests[payment_id].amount
                 requests == IF assigned
                             THEN [payment_requests EXCEPT ![payment_id].user_id = user_id]
                             ELSE payment_requests
                 enhanced == _enhance_verification_result(result, expected_amount)
                 suggested_action == enhanced.suggested_action
                 amount == credit_amount(suggested_action, expected_amount, enhanced.amount_paid)
                 credited == \/ suggested_action = "credit_full"
                             \/ suggested_action = "credit_partial" /\ amount >= MinCredit
                 status == IF credited THEN "approved"
                           ELSE IF suggested_action = "credit_partial" THEN requests[payment_id].status
                           ELSE IF suggested_action = "reject" THEN "rejected"
                           ELSE "pending"
             IN  /\ payment_screenshot_state' =
                        [u \in DOMAIN payment_screenshot_state \ {user_id} |->
                            payment_screenshot_state[u]]
                 /\ payment_requests' = [requests EXCEPT ![payment_id].status = status]
                 /\ wallet' = IF credited THEN [wallet EXCEPT ![user_id] = @ + amount] ELSE wallet
                 /\ profile_balance' = IF credited
                                       THEN [profile_balance EXCEPT ![user_id] = wallet[user_id] + amount]
                                       ELSE profile_balance
                 /\ transactions' = IF credited THEN record_transaction("deposit", amount, 0)
                                    ELSE transactions
                 /\ reply' = IF credited THEN "payment_credited"
                             ELSE IF suggested_action = "credit_partial" THEN "payment_too_low"
                             ELSE IF suggested_action = "reject" THEN "payment_rejected"
                             ELSE "manual_review"
                 /\ handled' = [by |-> "handle_payment_screenshot", intent |-> suggested_action,
                                stage |-> "none", sender |-> user_id, payment_id |-> payment_id,
                                credited |-> credited]
                 /\ UNCHANGED challenges

NextOwners ==
    \/ \E user_id \in Users, amount \in {50, 100} : _handle_confirmation_step(user_id, amount)
    \/ \E user_id \in Users, failed \in BOOLEAN,
          result \in [transaction_status : {"SUCCESS", "FAILED"},
                      recipient_upi : {expected_upi_id, "someone@upi"}, upi_matches : {FALSE},
                      timestamp_valid : {TRUE}, amount_paid : {50, 100}] :
          /\ handle_payment_screenshot_of(user_id, result, failed)
          /\ UNCHANGED <<bet_conversation_state, fund_state, withdrawal_state, last_ledger_op,
                         faults, attempts, idle, polling>>

SpecOwners == InitOwners /\ [][NextOwners]_<<vars, polling, payment_screenshot_state>>

\* ------------------------------------------- the decision function alone
\* _enhance_verification_result called on a parsed answer that the caller
\* keeps: `handled.result` is that dict as it is now, `handled.input` what it
\* was when it was parsed.
MaxCalls == 2

ModelConcerns == {<<>>, <<"blurred_image">>}

\* parsed answers with and without a concerns list
ParsedAnswers ==
    {[kind |-> "parsed", json |-> r] : r \in Readings(100)}
    \cup {[kind |-> "parsed", json |-> [k \in ReadingFields \cup {"concerns"} |->
                                          IF k = "concerns" THEN c ELSE r[k]]] :
             r \in Readings(100), c \in ModelConcerns}

\* enhanced["concerns"]: the list of the answer itself when it has one
EnhancedConcerns(result, expected_amount) ==
    Get(result, "concerns", <<>>) \o AddedConcerns(WithDefaults(result), expected_amount)

\* the answer after the call: the appends went to its own list
AfterEnhance(result, expected_amount) ==
    IF "concerns" \in DOMAIN result
    THEN [result EXCEPT !["concerns"] = EnhancedConcerns(result, expected_amount)]
    ELSE result

Returned(result, expected_amount) ==
    LET enhanced == _enhance_verification_result(WithDefaults(result), expected_amount)
    IN  [suggested_action |-> enhanced.suggested_action,
         credit_amount |-> credit_amount(enhanced.suggested_action, expected_amount,
                                         enhanced.amount_paid),
         concerns |-> EnhancedConcerns(result, expected_amount)]

InitEnhance ==
    /\ wallet = InitialBalance
    /\ profile_balance = InitialBalance
    /\ challenges = <<>>
    /\ transactions = EmptyBag
    /\ payment_requests = <<>>
    /\ bet_conversation_state = EmptyDict
    /\ fund_state = EmptyDict
    /\ withdrawal_state = EmptyDict
    /\ reply = "none"
    /\ last_ledger_op = NoLedgerOp
    /\ faults = 0
    /\ attempts = <<>>
    /\ idle = FALSE
    /\ stored_messages = <<>>
    /\ last_processed_time = 0
    /\ processed_messages = {}
    /\ dispatched = <<>>
    /\ payment_screenshot_state = EmptyDict
    /\ \E answer \in ParsedAnswers :
          handled = [by |-> "_extract_and_parse_json", intent |-> "none", stage |-> "none",
                     input |-> answer.json, result |-> answer.json, expected_amount |-> 100,
                     calls |-> 0, returned |-> <<>>]

Enhance ==
    /\ handled.calls < MaxCalls
    /\ handled' = [handled EXCEPT
                      !.by = "_enhance_verification_result",
                      !.calls = @ + 1,
                      !.returned = Append(@, Returned(handled.result, handled.expected_amount)),
                      !.result = AfterEnhance(handled.result, handled.expected_amount)]
    /\ UNCHANGED <<ledger, bet_conversation_state, fund_state, withdrawal_state, reply,
                   last_ledger_op, faults, attempts, idle>>

NextEnhance == Enhance /\ UNCHANGED <<polling, payment_screenshot_state>>

SpecEnhance == InitEnhance /\ [][NextEnhance]_<<vars, polling, payment_screenshot_state>>

\* ------------------------------------------------- external classification
\* GeminiClient.classify_intent behind the fast rules: what the language model
\* can do when asked (fail, answer text that is not JSON, answer JSON of any
\* shape) and what the caller gets back.
ClassifyMessages ==
  Messages \cup AmountMessages \cup
  {
    [text |-> "hi", hits |-> {"greeting"}, sub |-> {}, hasAmt |-> FALSE, amt |-> 0,
     hasDigit |-> FALSE, words |-> 1, len |-> 2, goal |-> "(other text)",
     clean |-> "(other text)", cleanSetup |-> FALSE, rest |-> "(other text)", restLen |-> 2,
     restSetup |-> FALSE, betGoalLen |-> 2, number |-> -1, fundNumber |-> -1],
    [text |-> "done", hits |-> {"completion", "exclusion"}, sub |-> {}, hasAmt |-> FALSE,
     amt |-> 0, hasDigit |-> FALSE, words |-> 1, len |-> 4, goal |-> "(other text)",
     clean |-> "(other text)", cleanSetup |-> FALSE, rest |-> "(other text)", restLen |-> 4,
     restSetup |-> FALSE, betGoalLen |-> 4, number |-> -1, fundNumber |-> -1],
    [text |-> "thanks a lot", hits |-> {"greeting"}, sub |-> {}, hasAmt |-> FALSE, amt |-> 0,
     hasDigit |-> FALSE, words |-> 3, len |-> 12, goal |-> "(other text)",
     clean |-> "(other text)", cleanSetup |-> FALSE, rest |-> "(other text)", restLen |-> 12,
     restSetup |-> FALSE, betGoalLen |-> 12, number |-> -1, fundNumber |-> -1]
  }

\* the keyword lists of _fallback_intent_classification with an entry inside
\* the message, and the first number in it (-1: none)
FallbackFeatures(text) ==
    [hits |->
        (IF text \in {"add funds"} THEN {"fund"} ELSE {})
        \cup (IF text \in {"balance", "bet my entire balance", "add funds"} THEN {"balance"} ELSE {})
        \cup (IF text \in {"my challenges"} THEN {"list"} ELSE {})
        \cup (IF text \in {"help"} THEN {"help"} ELSE {})
        \cup (IF text \in {"done"} THEN {"completion"} ELSE {})
        \cup (IF text \in {"hi", "thanks a lot"} THEN {"greeting"} ELSE {})
        \cup (IF text \in {"gym", "daily", "goal", "chess tonight", "gym rs 0", "gym rs 40",
                           "gym rs 100", "no bet rs 0 and change goal",
                           "no bet rs 40 and change goal", "no bet rs 100 and change goal"}
              THEN {"action"} ELSE {})
        \cup (IF text \in {"i want to bet"} THEN {"goal_phrase"} ELSE {}),
     number |->
        IF text \in {"gym rs 0", "rs 0", "no bet rs 0", "no bet rs 0 and change goal",
                     "bet rs 0 on chess"} THEN 0
        ELSE IF text \in {"40", "gym rs 40", "rs 40", "no bet rs 40",
                          "no bet rs 40 and change goal", "bet rs 40 on chess"} THEN 40
        ELSE IF text = "50" THEN 50
        ELSE IF text \in {"100", "gym rs 100", "rs 100", "no bet rs 100",
                          "no bet rs 100 and change goal", "bet rs 100 on chess"} THEN 100
        ELSE IF text = "200" THEN 200
        ELSE -1]

\* one entry of extracted_data, and extracted_data when it is a dict (a JSON
\* value of another type carries its type and no entries)
Slot(key, number, text) == [key |-> key, number |-> number, text |-> text]

JObject(slots) == [type |-> "object", slots |-> slots]

\* IntentClassificationResult; confidence in hundredths, intent "None" is
\* Python's None
Classification(intent, confidence, extracted_data) ==
    [intent |-> intent, confidence |-> confidence, extracted_data |-> extracted_data]

_fallback_intent_classification(m) ==
    LET f == FallbackFeatures(m.text)
        action_or_goal == "action" \in f.hits \/ "goal_phrase" \in f.hits
        amount == IF f.number >= 0 THEN {Slot("amount", f.number, "")} ELSE {}
        goal == {Slot("goal", 0, m.text)}
    IN  IF "fund" \in f.hits
        THEN Classification("add_funds", 95, JObject(amount))
        ELSE IF "balance" \in f.hits
        THEN Classification("get_balance", 90, JObject({}))
        ELSE IF "list" \in f.hits
        THEN Classification("list_challenges", 90, JObject({}))
        ELSE IF "help" \in f.hits
        THEN Classification("help", 90, JObject({}))
        ELSE IF "completion" \in f.hits
        THEN Classification("submit_completion", 80, JObject({}))
        ELSE IF "greeting" \in f.hits /\ m.words <= 3 /\ ~action_or_goal
        THEN Classification("general_chat", 80, JObject({}))
        ELSE IF action_or_goal
        THEN Classification("create_challenge_intent", 85, JObject(goal \cup amount))
        ELSE IF m.words >= 2
        THEN Classification("create_challenge_intent", 60, JObject(goal))
        ELSE Classification("general_chat", 40, JObject({}))

\* the ways the call can end without a JSON object to read
NLUFailures ==
    {[kind |-> k] : k \in {"disabled", "exception", "timeout", "empty", "not_json", "not_object"}}

\* a JSON object as answer; intent "missing": no such key, "None": null;
\* extracted_data a dict, absent, null, or a JSON array or string
NLUAnswers ==
    LET confidences ==
            {[type |-> "number", value |-> v] : v \in {-300, 50, 90, 700}}
            \cup {[type |-> t, value |-> 0] : t \in {"missing", "null", "string"}}
        slots ==
            {JObject({}), JObject({Slot("goal", 0, "go to gym")}),
             JObject({Slot("goal", 0, "go to gym"), Slot("mentioned_amount", 100, "")})}
            \cup {[type |-> t, slots |-> {}] : t \in {"missing", "null", "array", "string"}}
    IN  [kind : {"json"},
         intent : {"create_task", "add_money", "general_chat", "fly_to_moon", "None",
                   "missing"},
         confidence : confidences, extracted_data : slots]

intent_mapping(intent) ==
    CASE intent = "create_task" -> "create_challenge_intent"
      [] intent = "add_money" -> "add_funds"
      [] intent = "check_balance" -> "get_balance"
      [] intent = "list_tasks" -> "list_challenges"
      [] intent = "task_proof" -> "submit_completion"
      [] OTHER -> intent

\* "goal" -> "title", "mentioned_amount" -> "amount", "timeframe" -> "deadline"
MapFields(slots) ==
    LET name(key) ==
            CASE key = "goal" -> "title"
              [] key = "mentioned_amount" -> "amount"
              [] key = "timeframe" -> "deadline"
              [] OTHER -> key
        renamed == {slot \in slots : name(slot.key) # slot.key}
        kept == {slot \in slots \ renamed : \A other \in renamed : name(other.key) # slot.key}
    IN  kept \cup {Slot(name(slot.key), slot.number, slot.text) : slot \in renamed}

DefaultChat(m) == Classification("general_chat", 50, JObject({}))

\* what classify_intent returns whenever it has no answer to read
OnFailure(m) == _fallback_intent_classification(m)

classify_intent(m, nlu) ==
    LET confidence == nlu.confidence.value
    IN  IF nlu.kind # "json"
        THEN OnFailure(m)
        ELSE IF nlu.extracted_data.type = "null"
        THEN OnFailure(m)
        ELSE IF nlu.confidence.type \in {"null", "string"}
        THEN OnFailure(m)
        ELSE Classification(
                 IF nlu.intent = "missing" THEN "general_chat" ELSE intent_mapping(nlu.intent),
                 IF nlu.confidence.type = "missing" THEN 50
                 ELSE IF confidence > 100 THEN 100 ELSE IF confidence < 0 THEN 0
                 ELSE confidence,
                 IF nlu.extracted_data.type = "missing" THEN JObject({})
                 ELSE IF nlu.extracted_data.type = "object"
                 THEN JObject(MapFields(nlu.extracted_data.slots))
                 ELSE nlu.extracted_data)

\* a message has arrived and is about to be classified
InitClassify ==
    /\ wallet = InitialBalance
    /\ profile_balance = InitialBalance
    /\ challenges = <<>>
    /\ transactions = EmptyBag
    /\ payment_requests = <<>>
    /\ bet_conversation_state = EmptyDict
    /\ fund_state = EmptyDict
    /\ withdrawal_state = EmptyDict
    /\ reply = "none"
    /\ last_ledger_op = NoLedgerOp
    /\ faults = 0
    /\ attempts = <<>>
    /\ idle = FALSE
    /\ stored_messages = <<>>
    /\ last_processed_time = 0
    /\ processed_messages = {}
    /\ dispatched = <<>>
    /\ payment_screenshot_state = EmptyDict
    /\ \E m \in ClassifyMessages :
           handled = [by |-> "message_received", intent |-> "none", stage |-> "none",
                      message |-> m]

\* the language model is asked when the fast rules are not sure
Classify(nlu) ==
    LET m == handled.message
        fast == _fast_intent_classification(m)
        asked == fast.intent # "betting_intent" /\ fast.confidence < 80
        amount == IF fast.has_amount THEN {Slot("amount", fast.amount, "")} ELSE {}
    IN  /\ handled' = [by |-> "classify_intent", intent |-> "none", stage |-> "none",
                       message |-> m, nlu |-> nlu, asked |-> asked,
                       returned |-> IF asked THEN classify_intent(m, nlu)
                                    ELSE Classification(fast.intent, fast.confidence,
                                                        JObject(amount))]
        /\ UNCHANGED <<ledger, bet_conversation_state, fund_state, withdrawal_state, reply,
                       last_ledger_op, faults, attempts, idle>>

NextClassify == \E nlu \in NLUFailures \cup NLUAnswers : Classify(nlu) /\ UNCHANGED <<polling, payment_screenshot_state>>

SpecClassify == InitClassify /\ [][NextClassify]_<<vars, polling, payment_screenshot_state>>

\* ------------------------------------------------------------------ claims
\* the wallet balance as stored
stored_balance == wallet

RECURSIVE SumAmounts(_, _)
\* the sum of the signed amounts of the rows of bag B that are in set S
SumAmounts(S, B) ==
    IF S = {} THEN 0
    ELSE LET row == CHOOSE x \in S : TRUE
         IN  row.amount * CopiesIn(row, B) + SumAmounts(S \ {row}, B)

\* the rows of the transaction table that satisfy Keep
TransactionsWhere(Keep(_)) == {row \in BagToSet(transactions) : Keep(row)}

RECURSIVE CountRows(_, _)
\* the number of rows of bag B that are in set S
CountRows(S, B) ==
    IF S = {} THEN 0
    ELSE LET row == CHOOSE x \in S : TRUE
         IN  CopiesIn(row, B) + CountRows(S \ {row}, B)

\* C6: in every state the stored balance equals the initial balance plus the
\* sum of the signed amounts of the user's transactions, also after a handler
\* run in which a database call failed.
C6_BalanceIsSumOfTransactions ==
    stored_balance = InitialBalance + SumAmounts(BagToSet(transactions), transactions)

\* C1: in every state the balance plus the stakes of the active and pending
\* challenges equals the deposits minus the withdrawals plus the rewards.
C1_Conservation ==
    LET \* the stakes of the challenges that are active or pending verification
        LockedStakes ==
            LET locked == {c \in DOMAIN challenges :
                              challenges[c].status \in {"active", "pending_verification"}}
                rows == {[amount |-> challenges[c].amount, id |-> c] : c \in locked}
            IN  SumAmounts(rows, SetToBag(rows))
        IsDeposit(row) == row.transaction_type = "deposit"
        IsReward(row) == row.transaction_type = "reward"
        \* the withdrawal handler records a withdrawal as a deduction without a challenge
        IsWithdrawal(row) == row.transaction_type = "deduction" /\ row.challenge_id = 0
    IN
    stored_balance + LockedStakes =
        SumAmounts(TransactionsWhere(IsDeposit), transactions)
        + SumAmounts(TransactionsWhere(IsWithdrawal), transactions)
        + SumAmounts(TransactionsWhere(IsReward), transactions)

\* a step that adds a row to the challenge table, and the row it adds
ChallengeCreated == Len(challenges') = Len(challenges) + 1

NewChallenge == challenges'[Len(challenges')]

\* a step of the conversation handler that tries to create the challenge: an
\* affirmative reply in the confirmation stage
CommitAttempt ==
    /\ Phone \in DOMAIN bet_conversation_state
    /\ bet_conversation_state[Phone].stage = "waiting_for_confirmation"
    /\ reply' \in {"challenge_created", "error_creating_challenge"}

\* C3: creating the challenge from the confirmation stage has all three of its
\* effects or none: an active row, the balance reduced by the stake, and one
\* deduction transaction that references the row.
C3_CommitAllOrNothing ==
    [][CommitAttempt =>
          \/ /\ ChallengeCreated
             /\ NewChallenge.status = "active"
             /\ stored_balance' = stored_balance - NewChallenge.amount
             /\ transactions' = record_transaction("deduction", 0 - NewChallenge.amount,
                                                   Len(challenges'))
          \/ UNCHANGED <<challenges, wallet, profile_balance, transactions>>]_vars

\* C4: a challenge has at most one refund or reward transaction, whatever
\* sequence of cancellations and proof submissions ran and whichever of their
\* database calls failed.
C4_AtMostOneCredit ==
    LET IsCreditFor(challenge_id, row) ==
            row.transaction_type \in {"refund", "reward"} /\ row.challenge_id = challenge_id
    IN
    \A c \in DOMAIN challenges :
        LET Credits(row) == IsCreditFor(c, row)
        IN  CountRows(TransactionsWhere(Credits), transactions) <= 1

\* C8: the status of a challenge only changes from active to
\* pending_verification, completed, failed or cancelled, and from
\* pending_verification to completed or failed.
C8_StatusTransitions ==
    [][LET AllowedTransitions ==
               {<<"active", "pending_verification">>, <<"active", "completed">>, <<"active", "failed">>,
                <<"active", "cancelled">>, <<"pending_verification", "completed">>,
                <<"pending_verification", "failed">>}
       IN
       \A c \in DOMAIN challenges :
          challenges'[c].status # challenges[c].status =>
              <<challenges[c].status, challenges'[c].status>> \in AllowedTransitions]_vars

\* C9: creating a challenge through the conversation and then cancelling it,
\* with no other ledger operation in between, leaves the stored balance at its
\* value before the creation.
C9_CreateThenCancel ==
    [][LET \* a step of the cancellation handler that cancels the challenge created by the last ledger write
           CancelAfterCreate ==
               /\ last_ledger_op.op = "create"
               /\ reply' \in {"challenge_cancelled", "cancel_error"}
       IN
       CancelAfterCreate => stored_balance' = last_ledger_op.balance_before]_vars

\* C2: creating a challenge never debits a stake above the available balance,
\* and the stored balance is never negative.
C2_StakeWithinBalance ==
    [][/\ ChallengeCreated => NewChallenge.amount <= ProfileBalance
       /\ stored_balance' >= 0]_vars

\* C10: a challenge row is only created by an affirmative reply in the
\* confirmation stage, the session then has both its goal and its amount, and
\* the row carries them.
C10_RowFromSession ==
    [][ChallengeCreated =>
          /\ CommitAttempt
          /\ {"goal", "amount"} \subseteq DOMAIN bet_conversation_state[Phone]
          /\ NewChallenge.title = bet_conversation_state[Phone].goal
          /\ NewChallenge.amount = bet_conversation_state[Phone].amount]_vars

\* C7: a status update requested for a challenge that is completed, failed or
\* cancelled is refused and leaves the challenge's status, the balance and the
\* transactions as they were.
C7_TerminalIsFinal ==
    [][LET TerminalStatuses == {"completed", "failed", "cancelled"}
           \* a step that requests a status update from the service layer, and the request
           StatusRequested ==
               /\ Len(attempts') = Len(attempts) + 1
               /\ attempts'[Len(attempts')].kind = "update_challenge_status"
           LastRequest == attempts'[Len(attempts')]
       IN
       (/\ StatusRequested
        /\ LastRequest.challenge_id \in DOMAIN challenges
        /\ challenges[LastRequest.challenge_id].status \in TerminalStatuses)
       => /\ ~LastRequest.result
          /\ UNCHANGED <<challenges, wallet, profile_balance, transactions>>]_vars

\* C5: when two creations overlapped and the balance covered only one of the
\* two stakes, one of them created a challenge and the other ended with
\* insufficient balance: one row and one deduction exist.
C5_OverlappingCommits ==
    LET Done(i) == attempts[i].pc = "done"
        \* the balance at the start of the first attempt covers each stake and not both
        CoversOnlyOne ==
            LET balance == attempts[1].wallet_before
            IN  /\ balance >= attempts[1].amount
                /\ balance >= attempts[2].amount
                /\ balance < attempts[1].amount + attempts[2].amount
        IsDeduction(row) == row.transaction_type = "deduction" /\ row.challenge_id # 0
    IN
    (/\ Len(attempts) = 2
     /\ Done(1) /\ Done(2)
     /\ attempts[2].overlaps
     /\ CoversOnlyOne)
    => /\ \E i \in {1, 2} : /\ attempts[i].outcome = "challenge_created"
                            /\ attempts[3 - i].outcome = "insufficient_balance"
       /\ Len(challenges) = 1
       /\ CountRows(TransactionsWhere(IsDeduction), transactions) = 1

\* C11: every challenge row ever created has a stake strictly greater than 0.
C11_PositiveStake == \A c \in DOMAIN challenges : challenges[c].amount > 0

\* the step is the conversation handler taking message m
BetStep(m) ==
    /\ idle' = FALSE
    /\ handled' = Inbound("_handle_bet_conversation", m)
    /\ handle_bet_conversation(m, {})

C13_OverBalanceRejected ==
    [][LET \* the stake a message offers: the amount written with a currency marker, or
           \* the number the message consists of
           OffersStake(m) == m.hasAmt \/ m.number >= 0
           StakeOffered(m) == IF m.hasAmt THEN m.amt ELSE m.number
       IN
       \A m \in DialogueMessages :
         (/\ Phone \in DOMAIN bet_conversation_state
          /\ bet_conversation_state[Phone].stage = "waiting_for_amount"
          /\ OffersStake(m)
          /\ StakeOffered(m) > stored_balance
          /\ BetStep(m))
         => /\ reply' = "amount_exceeds_balance"
            /\ bet_conversation_state' = bet_conversation_state
            /\ UNCHANGED ledger]_vars

\* C14: an amount input that the conversation rejects (not a number, not
\* positive, or above the balance) leaves the session in the same stage with
\* every slot collected so far unchanged.
C14_RejectedAmountKeepsSlots ==
    [][LET \* the replies with which the conversation turns an amount down
           AmountRejections == {"amount_not_understood", "amount_not_positive", "amount_exceeds_balance"}
       IN
       \A m \in DialogueMessages :
         (/\ Phone \in DOMAIN bet_conversation_state
          /\ reply' \in AmountRejections
          /\ BetStep(m))
         => bet_conversation_state' = bet_conversation_state]_vars

C16_IdleSessionDiscarded ==
    [][(/\ idle
        /\ Phone \in DOMAIN bet_conversation_state
        /\ idle' = FALSE)
       => handled'.by = "route_message"]_vars

\* C17: the user has at most one conversation open at any time, the bet
\* conversation or the fund conversation; a message that arrives while one is
\* open is taken by it or ends it, and never opens the other one.
C17_OneConversation ==
    [][/\ ~(Phone \in DOMAIN bet_conversation_state' /\ Phone \in DOMAIN fund_state')
       /\ Phone \in DOMAIN bet_conversation_state => Phone \notin DOMAIN fund_state'
       /\ Phone \in DOMAIN fund_state => Phone \notin DOMAIN bet_conversation_state']_vars

\* 'add funds' arrived while the bet conversation was open: the conversation
\* took it and no fund conversation opened
C17_Witness ==
    /\ handled.by = "_handle_bet_conversation"
    /\ handled.intent = "add_funds"
    /\ Phone \in DOMAIN bet_conversation_state
    /\ Phone \notin DOMAIN fund_state

\* the messages in processing
InProcessing == {i \in DOMAIN attempts : attempts[i].pc # "done"}

\* C18: no two messages of the user are in processing at the same time, and
\* a message starts only when every effect of the messages before it has
\* been applied.
C18_OneMessageAtATime ==
    /\ Cardinality(InProcessing) <= 1
    /\ \A i \in DOMAIN attempts :
          /\ ~attempts[i].overlaps
          /\ \A j \in 1..(i - 1) : attempts[j].pc = "done"

\* two messages that create a challenge have been processed, one after the other
C18_Witness ==
    /\ Len(attempts) = 2
    /\ InProcessing = {}
    /\ Len(challenges) = 2

\* C19: the retry wrapper never runs a ledger-mutating operation more than
\* once for one request: handle_proof_submission, the one wrapped function
\* that writes balances, transactions and challenge statuses, is called once
\* per request, whatever database call fails in it.
C19_NoRetryOfLedgerWrites ==
    handled.by = "with_retry" => handled.calls = 1 /\ handled.intent = "returned"

\* a proof request in which the insert of the reward transaction failed after
\* the balance was credited: the wrapper made one call and returned the error reply
C19_Witness ==
    /\ handled.by = "with_retry"
    /\ handled.calls = 1
    /\ reply = "reward_error"
    /\ faults = 1

ScreenshotRead == handled.by = "handle_payment_screenshot" /\ handled.usable

\* ... and the reading shows a successful payment to the expected counterparty
\* inside the time window
GoodPaymentRead ==
    /\ ScreenshotRead
    /\ Upper(handled.result.transaction_status) = "SUCCESS"
    /\ CounterpartyMatches(handled.result)
    /\ handled.result.timestamp_valid

\* C21: a good payment of at least 0.8 of the expected amount that differs from
\* it by more than 0.05 of it is decided credit_partial, and the wallet is
\* credited with exactly the detected amount.
C21_PartialCreditIsDetectedAmount ==
    (/\ GoodPaymentRead
     /\ 10 * handled.result.amount_paid >= 8 * handled.expected_amount
     /\ 100 * Abs(handled.result.amount_paid - handled.expected_amount) > 5 * handled.expected_amount)
    => /\ handled.intent = "credit_partial"
       /\ handled.credit_amount = handled.result.amount_paid
       /\ handled.failed = {} => wallet = handled.balance_before + handled.result.amount_paid

\* C22: for a good payment, a difference of exactly max(10, 5% of expected)
\* between the detected and the expected amount is decided credit_full, and a
\* difference one unit larger is decided credit_partial.
C22_ToleranceBoundary ==
    LET Max2(a, b) == IF a >= b THEN a ELSE b
        \* 20 times the amount tolerance max(10, 0.05 x expected_amount)
        Tolerance20(expected_amount) == Max2(20 * 10, expected_amount)
    IN
    GoodPaymentRead =>
        LET diff == Abs(handled.result.amount_paid - handled.expected_amount)
        IN  /\ 20 * diff = Tolerance20(handled.expected_amount) => handled.intent = "credit_full"
            /\ 20 * (diff - 1) = Tolerance20(handled.expected_amount)
                  => handled.intent = "credit_partial"

\* C23: a successful payment to the expected counterparty of more than 1.1
\* times the expected amount is decided credit_partial and credited with the
\* detected amount, whether or not its timestamp is inside the window.
C23_OverpaymentCredited ==
    (/\ ScreenshotRead
     /\ Upper(handled.result.transaction_status) = "SUCCESS"
     /\ CounterpartyMatches(handled.result)
     /\ 10 * handled.result.amount_paid > 11 * handled.expected_amount)
    => /\ handled.intent = "credit_partial"
       /\ handled.credit_amount = handled.result.amount_paid
       /\ handled.failed = {} =>
             /\ wallet = handled.balance_before + handled.result.amount_paid
             /\ payment_requests[handled.payment_id].status = "approved"

C23_Witness ==
    /\ ScreenshotRead
    /\ handled.result.transaction_status = "SUCCESS"
    /\ handled.result.recipient_upi = expected_upi_id
    /\ ~handled.result.timestamp_valid
    /\ handled.expected_amount = 100
    /\ handled.result.amount_paid = 115
    /\ handled.failed = {}
    /\ wallet = 115

Names(concerns, concern) == \E i \in DOMAIN concerns : concerns[i] = concern

\* C24: a successful payment whose counterparty does not match the expected
\* id, or whose timestamp is outside the window, is decided manual_review, the
\* concerns name each check that failed, and the wallet is not credited.
C24_FailedCheckGoesToReview ==
    (/\ ScreenshotRead
     /\ Upper(handled.result.transaction_status) = "SUCCESS"
     /\ ~RecipientMatches(handled.result.recipient_upi) \/ ~handled.result.timestamp_valid)
    => /\ handled.intent = "manual_review"
       /\ ~RecipientMatches(handled.result.recipient_upi) => Names(handled.concerns, "upi_mismatch")
       /\ ~handled.result.timestamp_valid => Names(handled.concerns, "timestamp_outside_window")
       /\ wallet = handled.balance_before

C26_UnsuccessfulIsRejected ==
    [][LET UnsuccessfulStatuses == {"FAILED", "PENDING", "UNKNOWN"}
       IN
       (/\ handled'.by = "handle_payment_screenshot"
        /\ handled'.usable
        /\ Upper(handled'.result.transaction_status) \in UnsuccessfulStatuses)
       => /\ handled'.intent = "reject"
          /\ payment_requests'[handled'.payment_id].status = "rejected"
          /\ UNCHANGED <<wallet, profile_balance, transactions>>]_vars

C26_Witness ==
    /\ ScreenshotRead
    /\ handled.result.transaction_status = "PENDING"
    /\ handled.result.recipient_upi = expected_upi_id
    /\ handled.result.timestamp_valid
    /\ handled.result.amount_paid = handled.expected_amount
    /\ handled.intent = "reject"
    /\ payment_requests[handled.payment_id].status = "rejected"
    /\ wallet = 0

\* C27: when the extraction fails, is unavailable, or lacks fields or has
\* unusable ones, the decision is manual_review: never a credit, never a
\* rejection.
C27_NoDataGoesToReview ==
    LET \* the vision model gave no answer, or an answer without some field, or with
        \* an amount that is not a number
        ExtractionIncomplete ==
            /\ handled.by = "handle_payment_screenshot"
            /\ \/ handled.extraction.kind # "parsed"
               \/ DOMAIN handled.extraction.json # ReadingFields
    IN
    ExtractionIncomplete => handled.intent = "manual_review"

\* C28: the decision function is pure: two calls on the same input return
\* the same decision, credit amount and concerns, and the input is left as it
\* was.
C28_DecisionIsPure ==
    handled.by = "_enhance_verification_result" =>
        /\ handled.result = handled.input
        /\ \A i, j \in DOMAIN handled.returned : handled.returned[i] = handled.returned[j]

\* C29: whatever the text and whatever the language model does, the caller
\* gets a classification back: an intent, a confidence between 0 and 1, and a
\* map of slots.
C29_ClassificationAlwaysWellFormed ==
    handled.by = "classify_intent" =>
        /\ handled.returned.intent # "None"
        /\ handled.returned.confidence \in 0..100
        /\ handled.returned.extracted_data.type = "object"

\* C30: when the language model is asked and the call fails, times out, or
\* answers nothing that can be read as a JSON object, the caller gets exactly
\* what the keyword fallback gives for the same message, each time it happens.
C30_FailureFallsBackToHeuristic ==
    (handled.by = "classify_intent" /\ handled.asked /\ handled.nlu \in NLUFailures) =>
        handled.returned = _fallback_intent_classification(handled.message)

C30_Witness ==
    /\ handled.by = "classify_intent"
    /\ handled.asked
    /\ handled.nlu.kind = "timeout"
    /\ handled.message.text = "chess tonight"
    /\ handled.returned.intent = "create_challenge_intent"
    /\ handled.returned.confidence = 85

\* C31: whatever the keyword fallback returns carries a confidence of at most
\* 0.7.
C31_FallbackConfidenceCapped ==
    (handled.by = "classify_intent" /\ handled.asked /\ handled.nlu \in NLUFailures) =>
        handled.returned.confidence <= 70

\* C32: what the user is told after an internal failure is a fixed statement;
\* no reply quotes an exception's text or its type name.
C32_RepliesHideInternalErrors ==
    reply \notin {"screenshot_storage_failed", "payment_processing_error"}

\* C33: over all iterations of the polling loop, also those that end in an
\* error and those after the cache of processed keys was cleared, a stored
\* message is handed to process_message at most once, and only while its
\* timestamp is newer than the watermark.
C33_DispatchedAtMostOnce ==
    [][\A id \in DOMAIN dispatched :
          dispatched'[id] > dispatched[id] =>
              /\ dispatched[id] = 0
              /\ stored_messages[id].timestamp > last_processed_time]_polling

\* C39: a stored message with a sender and a timestamp newer than the
\* watermark is eventually handed to process_message, whatever else is
\* waiting with it.
C39_EveryNewMessageDispatched ==
    \A id \in 1..MaxMessages :
        (/\ id \in DOMAIN stored_messages
         /\ stored_messages[id].sender # ""
         /\ stored_messages[id].timestamp > last_processed_time)
        ~> (id \in DOMAIN dispatched /\ dispatched[id] > 0)

\* C38: a user with balance 0 who is told to add funds has no bet
\* conversation open afterwards, so that the next message is routed as a new
\* message and not taken as the goal.
C38_NoSessionAtZeroBalance ==
    (reply = "need_funds" /\ ProfileBalance = 0) => Phone \notin DOMAIN bet_conversation_state

\* C40: 'cancel' sent inside the fund conversation, at the amount step or at
\* the confirm step, removes the fund state and creates no payment request.
C40_CancelLeavesFundConversation ==
    [][(/\ Phone \in DOMAIN fund_state
        /\ handled'.by = "handle_fund_conversation"
        /\ handled'.intent = "cancel_conversation")
       => (Phone \notin DOMAIN fund_state' /\ payment_requests' = payment_requests)]_vars

\* C37: when the read of the user's balance fails inside a refund, a reward,
\* a deposit approval or a withdrawal, the operation does not go on with a
\* substituted balance: a stored balance other than the default of 0 stays
\* what it was.
C37_FailedReadChangesNothing ==
    (/\ handled.by \in {"_approve_payment", "handle_cancel_challenge",
                        "handle_proof_submission", "handle_withdraw_funds"}
     /\ "balance_read" \in handled.failed
     /\ handled.balance_before > 0)
    => wallet = handled.balance_before

\* C36: the decision on a screenshot depends on what was detected (amount,
\* counterparty, status, timestamp flag) and on what was expected; the match
\* flag the extractor asserts itself does not change it: the same reading with
\* the opposite upi_matches gets the same decision.
C36_DecisionIgnoresAssertedFlags ==
    handled.by = "handle_payment_screenshot"
    => LET asserted == handled.result
           opposite == [asserted EXCEPT !.upi_matches = ~@]
       IN  handled.intent =
               _enhance_verification_result(opposite, handled.expected_amount).suggested_action

\* C35: for every payment request, in every state, the number of deposit
\* credits written to the wallet for it is 1 when its status is approved and
\* 0 otherwise.
C35_OneCreditIffApproved ==
    \A p \in DOMAIN payment_requests :
        credits_applied[p] = IF payment_requests[p].status = "approved" THEN 1 ELSE 0

\* C34: a payment request stays with the user who created it, and a
\* screenshot credits a wallet from a request only when its sender is that
\* user.
C34_RequestStaysWithItsOwner ==
    /\ \A p \in DOMAIN payment_requests :
           payment_requests[p].user_id = payment_requests[p].created_by
    /\ (handled.by = "handle_payment_screenshot" /\ handled.credited)
       => payment_requests[handled.payment_id].created_by = handled.sender

====
